---------------------------- MODULE Spec2Model ----------------------------
(* State-machine model of the entitlement and inventory engine of          *)
(* src/cde/cde/main.py: the /key and /get commands, key generation, the    *)
(* ban policy, and the admin conversations (revoke, ban, unban, promote,   *)
(* demote, broadcast, stock and card ingestion).                           *)
(*                                                                         *)
(* The JSON files are the variables users, claves, card_keys, stock,       *)
(* cards, banned_users and admins.  A Python dict whose iteration order    *)
(* the code depends on (stock, cards) is a sequence of [k, v] entries in   *)
(* insertion order; the other dicts are functions.                         *)
(* The Application is built without concurrent_updates (main.py:1266), so  *)
(* the dispatcher awaits each update's handler before it takes the next    *)
(* one: one handler call is one step.                                      *)
EXTENDS Integers, Sequences, FiniteSets, TLC

(* ------------------------------ bounds ------------------------------- *)
\* Number of updates explored from an initial state.
MaxSteps == 4
\* The same for the runs of the abuse policy alone (/key and ban, unban).
MaxAbuseSteps == 5
\* Largest number of updates that arrive in one burst.
MaxBurst == 3
\* Updates explored in a run of the payload conversations.
MaxIngestSteps == 6
\* Updates explored in a run with failing saves.
MaxFailSteps == 3

\* Telegram user ids; ADMIN is the configured super-admin (main.py:23).
ADMIN == 1
UserIds == {1, 2, 3}
\* The users who press the buttons of the admin panel and talk to its
\* conversations (with or without the privilege to).
Operators == {1, 2}

\* Outcomes of random.choices for the 16-character key suffix.
Suffixes == {"A"}

(* ----------------------------- constants ----------------------------- *)
\* Invalid /key attempts at which the ban trips (main.py:352).
BanThreshold == 3
\* Uses of a SuperPro key (main.py:787) and of a card key (main.py:807).
SuperProMax == 1000
CardKeyMax == 1

SinPlan == [nombre |-> "Sin plan", max |-> 0, usados |-> 0]
NewUser == [plan_normal |-> SinPlan, plan_tarjetas |-> SinPlan,
            invalid_key_attempts |-> 0]

\* planes of gen_cmd: (usos, nombre).
Planes == << <<1, "Bronce 1">>, <<2, "Plata 2">>, <<3, "Oro 3">>, <<4, "Diamante 4">> >>

\* A key code f"paublte-{prefix}-{suffix}" is the pair <<prefix, suffix>>.
GenPrefix(usos) == CASE usos = 1 -> "gen1" [] usos = 2 -> "gen2"
                     [] usos = 3 -> "gen3" [] OTHER -> "gen4"
NoCode == <<"none", "none">>
BogusCode == <<"bogus", "X">>

(* ------------------------- Python primitives ------------------------- *)
Min(a, b) == IF a < b THEN a ELSE b
Max(a, b) == IF a > b THEN a ELSE b

\* Index normalisation of a Python slice bound c on a list of length n.
SliceIndex(c, n) == IF c < 0 THEN Max(n + c, 0) ELSE Min(c, n)
\* list[:c]
SliceTo(list, c) == SubSeq(list, 1, SliceIndex(c, Len(list)))
\* list[c:]
SliceFromNoRemove(list, c) == list
SliceFrom(list, c) == SubSeq(list, SliceIndex(c, Len(list)) + 1, Len(list))

\* str.lower() on the site names that occur.
LowerKeep(s) == s
Lower(s) == CASE s = "Netflix" -> "netflix"
              [] s = "NETFLIX" -> "netflix"
              [] s = "Visa" -> "visa"
              [] s = "VISA" -> "visa"
              [] OTHER -> s

\* str.strip() on the texts that occur.
Strip(s) == CASE s = " " -> ""
              [] s = " Netflix " -> "Netflix"
              [] OTHER -> s

\* int(text): ok is FALSE where Python raises ValueError.
ParseInt(s) == CASE s = "-1" -> [ok |-> TRUE, val |-> -1]
                 [] s = "0" -> [ok |-> TRUE, val |-> 0]
                 [] s = "1" -> [ok |-> TRUE, val |-> 1]
                 [] s = "2" -> [ok |-> TRUE, val |-> 2]
                 [] s = "3" -> [ok |-> TRUE, val |-> 3]
                 [] s = "4" -> [ok |-> TRUE, val |-> 4]
                 [] OTHER -> [ok |-> FALSE, val |-> 0]

\* text.split('\n')
SplitLines(s) == CASE s = "acc1\nacc2" -> <<"acc1", "acc2">>
                   [] s = "acc1\n \nacc2" -> <<"acc1", " ", "acc2">>
                   [] s = "acc3\n " -> <<"acc3", " ">>
                   [] OTHER -> <<s>>

\* list membership, append and remove (first occurrence) on lists of ids.
InList(x, list) == \E i \in 1..Len(list) : list[i] = x
RECURSIVE ListRemove(_, _)
ListRemove(list, x) ==
    IF list = <<>> THEN <<>>
    ELSE IF Head(list) = x THEN Tail(list)
    ELSE <<Head(list)>> \o ListRemove(Tail(list), x)

\* Ordered dicts (stock, cards): entries [k, v] in insertion order.
DictKeys(d) == {d[i].k : i \in 1..Len(d)}
DictIndex(d, key) == IF key \in DictKeys(d)
                     THEN CHOOSE i \in 1..Len(d) : d[i].k = key
                     ELSE 0
DictGet(d, key) == d[DictIndex(d, key)].v
\* d[key] = v : in place when the key exists, appended otherwise.
DictSetExtend(d, key, v) ==
    IF key \in DictKeys(d)
    THEN [d EXCEPT ![DictIndex(d, key)].v.items = @ \o v.items]
    ELSE Append(d, [k |-> key, v |-> v])
DictSet(d, key, v) == IF key \in DictKeys(d)
                      THEN [d EXCEPT ![DictIndex(d, key)].v = v]
                      ELSE Append(d, [k |-> key, v |-> v])

\* dict.pop(key) / d[key] = v on the key collections (functions).
MapPopKeep(m, key) == m
MapPop(m, key) == [c \in (DOMAIN m) \ {key} |-> m[c]]
MapSet(m, key, v) == [c \in (DOMAIN m) \cup {key} |-> IF c = key THEN v ELSE m[c]]
EmptyMap == [c \in {} |-> 0]


(* ------------------------------- state ------------------------------- *)
VARIABLES
    users,          \* users.json: user id -> user record
    claves,         \* claves.json: code -> <<plan name, max uses>>
    card_keys,      \* card_keys.json: code -> <<plan name, max uses>>
    stock,          \* stock.json: ordered dict site -> pool
    cards,          \* cards.json: ordered dict bank -> pool
    banned_users,   \* ban_users.json: list of user ids
    admins,         \* admins.json: list of user ids
    conv,           \* per user, the state of each ConversationHandler
    user_data,      \* ctx.user_data of each user
    reply,          \* the update handled last and the outcome sent for it
    hist,           \* per user, history counters of the abuse policy
    spent,          \* codes a successful /key consumed (and gen did not reissue)
    ledger,         \* per pool, the items committed and those delivered since
    budget,         \* number of updates still explored
    conc            \* the updates of a burst and how far each handler has run

vars == <<users, claves, card_keys, stock, cards, banned_users, admins,
          conv, user_data, reply, hist, spent, ledger,
          budget, conc>>

\* The persistent collections as one record, and its fields after a handler.
Store == [users |-> users, claves |-> claves, card_keys |-> card_keys,
          stock |-> stock, cards |-> cards,
          banned_users |-> banned_users, admins |-> admins]

\* A pool is a legacy list (shape "list") or {"message", "accounts"/"cards"}
\* (shape "dict").  An item is [label, file_id, file_type]; the items of a
\* legacy list are plain labels (file_id and file_type "none").
LegacyItem(label) == [label |-> label, file_id |-> "none", file_type |-> "none"]
TextItem(label) == [label |-> label, file_id |-> "none", file_type |-> "text"]
MediaItem(label, fid, ftype) == [label |-> label, file_id |-> fid, file_type |-> ftype]
LegacyPool(items) == [shape |-> "list", message |-> "", items |-> items]
DictPool(message, items) == [shape |-> "dict", message |-> message, items |-> items]

NoReply == [op |-> "none", uid |-> 0, code |-> NoCode, site |-> "", cant |-> 0,
            out |-> "none", rem |-> 0, items |-> <<>>, target |-> 0,
            kind |-> "none"]

(* ----------------------------- decorators ---------------------------- *)
\* is_banned / is_admin, on the lists as loaded.
is_banned(S, uid) == InList(uid, S.banned_users)
is_adminListed(S, uid) == InList(uid, S.admins)
is_admin(S, uid) == uid = ADMIN \/ InList(uid, S.admins)
\* check_super_admin lets only ADMIN through.
SuperAdminAnyone(uid) == TRUE
IsSuperAdmin(uid) == uid = ADMIN
\* check_ban lets the handler run.
BanExemptEverybody(uid) == TRUE
BanExempt(uid) == uid = ADMIN
PassesBan(S, uid) == BanExempt(uid) \/ ~is_banned(S, uid)

(* ------------------------------- /key -------------------------------- *)
\* The plan still has unused balance: a new key is refused.
PlanBlocksNever(plan) == FALSE
PlanBlocks(plan) == plan.nombre # "Sin plan" /\ plan.max > plan.usados

\* The plan a key activates.
ActivatedPlanUsed(entry) == [nombre |-> entry[1], max |-> entry[2], usados |-> 1]
ActivatedPlan(entry) == [nombre |-> entry[1], max |-> entry[2], usados |-> 0]

\* The ban trips at this count of invalid attempts.
ThresholdOff(n) == FALSE
ThresholdReached(n) == n >= BanThreshold

\* key_cmd behind check_ban: the store and the reply after /key clave from uid.
KeyCmd(S, uid, claveArg) ==
    LET clave == claveArg
        base == [NoReply EXCEPT !.op = "key_cmd", !.uid = uid, !.code = clave]
    IN
    IF ~PassesBan(S, uid)
    THEN [s |-> S, r |-> [base EXCEPT !.out = "BanRejected"]]
    ELSE
    LET ud == IF uid \in DOMAIN S.users THEN S.users[uid] ELSE NewUser
        users1 == MapSet(S.users, uid, ud)
        S1 == [S EXCEPT !.users = users1]
        is_card_key == clave \in DOMAIN S.card_keys
        is_normal_key == clave \in DOMAIN S.claves
    IN
    IF is_normal_key THEN
        IF PlanBlocks(ud.plan_normal)
        THEN [s |-> S1, r |-> [base EXCEPT !.out = "PlanAlreadyActive", !.kind = "normal"]]
        ELSE [s |-> [S1 EXCEPT !.claves = MapPop(S.claves, clave),
                               !.users = [users1 EXCEPT ![uid].plan_normal =
                                              ActivatedPlan(S.claves[clave])]],
              r |-> [base EXCEPT !.out = "Activated", !.kind = "normal"]]
    ELSE IF is_card_key THEN
        IF PlanBlocks(ud.plan_tarjetas)
        THEN [s |-> S1, r |-> [base EXCEPT !.out = "PlanAlreadyActive", !.kind = "tarjetas"]]
        ELSE [s |-> [S1 EXCEPT !.card_keys = MapPop(S.card_keys, clave),
                               !.users = [users1 EXCEPT ![uid].plan_tarjetas =
                                              ActivatedPlan(S.card_keys[clave])]],
              r |-> [base EXCEPT !.out = "Activated", !.kind = "tarjetas"]]
    ELSE
        LET n == ud.invalid_key_attempts + 1
            users2 == [users1 EXCEPT ![uid].invalid_key_attempts = n]
        IN IF ThresholdReached(n)
           THEN [s |-> [S1 EXCEPT !.users = users2,
                                  !.banned_users =
                                      IF InList(uid, S.banned_users)
                                      THEN S.banned_users
                                      ELSE Append(S.banned_users, uid)],
                 r |-> [base EXCEPT !.out = "Banned"]]
           ELSE [s |-> [S1 EXCEPT !.users = users2],
                 r |-> [base EXCEPT !.out = "InvalidKey", !.rem = BanThreshold - n]]

(* ------------------------------- /get -------------------------------- *)
PlanFieldStandard(ns) == "plan_normal"
PlanField(ns) == IF ns = "normal" THEN "plan_normal" ELSE "plan_tarjetas"

\* Index of the first key of d whose lower-cased form equals sitio, or 0.
FirstMatch(d, sitio) ==
    LET hits == {i \in 1..Len(d) : Lower(d[i].k) = sitio}
    IN IF hits = {} THEN 0 ELSE CHOOSE i \in hits : \A j \in hits : i <= j

\* Python truth value of a pool: a dict entry is never empty, a list may be.
Truthy(pool) == pool.shape = "dict" \/ pool.items # <<>>

\* disp = plan.get("max", 0) - plan.get("usados", 0)
BalanceIgnoresUse(plan) == plan.max
Balance(plan) == plan.max - plan.usados

\* The branch of get_cmd taken once a pool of namespace ns matched at index i.
FetchFrom(S, uid, ns, i, cant, base) ==
    LET d == IF ns = "normal" THEN S.stock ELSE S.cards
        pool == d[i].v
        plan == S.users[uid][PlanField(ns)]
        disp == Balance(plan)
        list == pool.items
        send == SliceTo(list, cant)
        rest == SliceFrom(list, cant)
        b == [base EXCEPT !.site = d[i].k, !.kind = ns]
        d2 == [d EXCEPT ![i].v.items = rest]
        users2 == [S.users EXCEPT ![uid][PlanField(ns)].usados = plan.usados + cant]
    IN
    IF plan.nombre = "Sin plan"
    THEN [s |-> S, r |-> [b EXCEPT !.out = "NoPlan"]]
    ELSE IF cant > disp
    THEN [s |-> S, r |-> [b EXCEPT !.out = "InsufficientBalance", !.rem = disp]]
    ELSE IF list = <<>> \/ Len(list) < cant
    THEN [s |-> S, r |-> [b EXCEPT !.out = "InsufficientStock"]]
    ELSE IF ns = "normal" /\ pool.shape = "dict" /\ send = <<>>
    THEN [s |-> S, r |-> [b EXCEPT !.out = "InsufficientStock"]]
    ELSE [s |-> IF ns = "normal"
                THEN [S EXCEPT !.stock = d2, !.users = users2]
                ELSE [S EXCEPT !.cards = d2, !.users = users2],
          r |-> [b EXCEPT !.out = "Delivered", !.items = send,
                          !.rem = plan.max - (plan.usados + cant)]]

\* get_cmd behind check_ban: /get sitioArg cantArg from uid.
GetCmd(S, uid, sitioArg, cantArg) ==
    LET sitio0 == Lower(Strip(sitioArg))
        p == ParseInt(cantArg)
        cant == p.val
        base == [NoReply EXCEPT !.op = "get_cmd", !.uid = uid, !.site = sitio0,
                                !.cant = cant]
    IN
    IF ~PassesBan(S, uid)
    THEN [s |-> S, r |-> [base EXCEPT !.out = "BanRejected"]]
    ELSE IF ~p.ok
    THEN [s |-> S, r |-> [base EXCEPT !.out = "BadQuantity"]]
    ELSE IF uid \notin DOMAIN S.users
            \/ (S.users[uid].plan_normal.nombre = "Sin plan"
                /\ S.users[uid].plan_tarjetas.nombre = "Sin plan")
    THEN [s |-> S, r |-> [base EXCEPT !.out = "NoActivePlan"]]
    ELSE
    LET i == FirstMatch(S.stock, sitio0)
        \* sitio = key : the name is rebound to the stored key on a match
        sitio1 == IF i = 0 THEN sitio0 ELSE S.stock[i].k
    IN
    IF i # 0 /\ Truthy(S.stock[i].v)
    THEN FetchFrom(S, uid, "normal", i, cant, base)
    ELSE
    LET j == FirstMatch(S.cards, sitio1)
        sitio2 == IF j = 0 THEN sitio1 ELSE S.cards[j].k
    IN
    IF j # 0 /\ Truthy(S.cards[j].v)
    THEN FetchFrom(S, uid, "tarjetas", j, cant, base)
    ELSE [s |-> S, r |-> [base EXCEPT !.site = sitio2, !.out = "NoStock"]]


(* ------------------------------ /start ------------------------------- *)
\* start behind check_ban: creates the user record on first contact.
StartCmd(S, uid) ==
    LET base == [NoReply EXCEPT !.op = "start", !.uid = uid]
    IN IF ~PassesBan(S, uid)
       THEN [s |-> S, r |-> [base EXCEPT !.out = "BanRejected"]]
       ELSE [s |-> [S EXCEPT !.users =
                        IF uid \in DOMAIN S.users THEN S.users
                        ELSE MapSet(S.users, uid, NewUser)],
             r |-> [base EXCEPT !.out = "Welcome"]]

(* -------------------------- key generation --------------------------- *)
Unauthorized(S, uid, op) ==
    [s |-> S, r |-> [NoReply EXCEPT !.op = op, !.uid = uid, !.out = "Unauthorized"]]

\* claves after the loop of gen_cmd over planes[i..4], sf[i] the random suffix.
RECURSIVE GenLoop(_, _, _)
GenLoop(m, sf, i) ==
    IF i > Len(Planes) THEN m
    ELSE GenLoop(MapSet(m, <<GenPrefix(Planes[i][1]), sf[i]>>,
                        <<Planes[i][2], Planes[i][1]>>), sf, i + 1)

\* gen_cmd behind check_admin.
GenCmd(S, uid, sf) ==
    IF ~is_admin(S, uid) THEN Unauthorized(S, uid, "gen_cmd")
    ELSE [s |-> [S EXCEPT !.claves = GenLoop(S.claves, sf, 1)],
          r |-> [NoReply EXCEPT !.op = "gen_cmd", !.uid = uid, !.out = "Generated",
                                !.kind = "normal"]]

\* super_pro_key_cmd behind check_admin.
SuperProKeyCmd(S, uid, sfx) ==
    IF ~is_admin(S, uid) THEN Unauthorized(S, uid, "super_pro_key_cmd")
    ELSE [s |-> [S EXCEPT !.claves = MapSet(S.claves, <<"superpro", sfx>>,
                                             <<"SuperPro", SuperProMax>>)],
          r |-> [NoReply EXCEPT !.op = "super_pro_key_cmd", !.uid = uid,
                                !.out = "Generated", !.kind = "normal",
                                !.code = <<"superpro", sfx>>]]

\* gen_cards_key_cmd behind check_admin.
GenCardsKeyCmdSharedPrefix(S, uid, sfx) ==
    IF ~is_admin(S, uid) THEN Unauthorized(S, uid, "gen_cards_key_cmd")
    ELSE [s |-> [S EXCEPT !.card_keys = MapSet(S.card_keys, <<"superpro", sfx>>,
                                                <<"Plan Tarjetas", CardKeyMax>>)],
          r |-> [NoReply EXCEPT !.op = "gen_cards_key_cmd", !.uid = uid,
                                !.out = "Generated", !.kind = "tarjetas",
                                !.code = <<"superpro", sfx>>]]
GenCardsKeyCmd(S, uid, sfx) ==
    IF ~is_admin(S, uid) THEN Unauthorized(S, uid, "gen_cards_key_cmd")
    ELSE [s |-> [S EXCEPT !.card_keys = MapSet(S.card_keys, <<"tarjeta", sfx>>,
                                                <<"Plan Tarjetas", CardKeyMax>>)],
          r |-> [NoReply EXCEPT !.op = "gen_cards_key_cmd", !.uid = uid,
                                !.out = "Generated", !.kind = "tarjetas",
                                !.code = <<"tarjeta", sfx>>]]


(* --------------------------- conversations --------------------------- *)
\* The ConversationHandlers in the order main() adds them; a text, /done or
\* /cancel goes to the first one that has a handler for it in its state.
Convs == <<"broadcast", "add_stock", "add_cards", "ban", "unban",
           "add_admin", "rem_admin", "revoke">>
END == "END"
IdleConv == [c \in {Convs[i] : i \in 1..Len(Convs)} |-> END]
EmptyUserData == [stock_site |-> "", stock_message |-> "", temp_accounts |-> <<>>,
                  cards_site |-> "", cards_message |-> "", temp_cards |-> <<>>]

\* An incoming message: a text, or a media message with a caption ("" = none).
TextMsg(t) == [ftype |-> "text", text |-> t, caption |-> ""]
MediaMsg(ft, cap) == [ftype |-> ft, text |-> "", caption |-> cap]

\* filters.TEXT & ~filters.COMMAND, and filters.ALL & ~filters.COMMAND.
AcceptsAll(state) == state \in {"BROADCAST_CONTENT", "AWAITING_STOCK_ACCOUNTS",
                                "AWAITING_CARDS_ACCOUNTS"}
Accepts(state, msg) == state # END /\ (msg.ftype = "text" \/ AcceptsAll(state))

\* The result of a conversation callback: store, reply, next state of its
\* conversation (the state it was in when the callback returns None or raises)
\* and the user's ctx.user_data.
Res(S, r, st, d) == [s |-> S, r |-> r, st |-> st, d |-> d]
R(op, uid, out) == [NoReply EXCEPT !.op = op, !.uid = uid, !.out = out]

\* cancel_conv
CancelConv(S, uid, d) == Res(S, R("cancel_conv", uid, "Cancelled"), END, d)

\* Entry points: the state each start callback returns.  start_add_stock and
\* start_add_cards carry no decorator.
EntryStart(S, uid, c, d) ==
    CASE c = "broadcast" ->
           IF is_admin(S, uid)
           THEN Res(S, R("start_broadcast", uid, "Prompt"), "BROADCAST_CONTENT", d)
           ELSE Res(S, R("start_broadcast", uid, "Unauthorized"), END, d)
      [] c = "add_stock" ->
           Res(S, R("start_add_stock", uid, "Prompt"), "AWAITING_STOCK_SITE", d)
      [] c = "add_cards" ->
           Res(S, R("start_add_cards", uid, "Prompt"), "AWAITING_CARDS_SITE", d)
      [] c = "ban" ->
           IF is_admin(S, uid)
           THEN Res(S, R("ban_user_start", uid, "Prompt"), "AWAITING_USER_ID_TO_BAN", d)
           ELSE Res(S, R("ban_user_start", uid, "Unauthorized"), END, d)
      [] c = "unban" ->
           IF is_admin(S, uid)
           THEN Res(S, R("unban_user_start", uid, "Prompt"), "AWAITING_USER_ID_TO_UNBAN", d)
           ELSE Res(S, R("unban_user_start", uid, "Unauthorized"), END, d)
      [] c = "add_admin" ->
           IF IsSuperAdmin(uid)
           THEN Res(S, R("add_admin_start", uid, "Prompt"), "AWAITING_ADMIN_ID", d)
           ELSE Res(S, R("add_admin_start", uid, "Unauthorized"), END, d)
      [] c = "rem_admin" ->
           IF IsSuperAdmin(uid)
           THEN Res(S, R("rem_admin_start", uid, "Prompt"), "AWAITING_REMOVE_ADMIN_ID", d)
           ELSE Res(S, R("rem_admin_start", uid, "Unauthorized"), END, d)
      [] OTHER ->
           IF is_admin(S, uid)
           THEN Res(S, R("revoke_premium_start", uid, "Prompt"), "AWAITING_USER_ID_TO_REVOKE", d)
           ELSE Res(S, R("revoke_premium_start", uid, "Unauthorized"), END, d)

\* The record of a user after revoke_premium_end.
RevokedUserStandardOnly(ud) == [ud EXCEPT !.plan_normal = SinPlan]
RevokedUserAttemptsReset(ud) ==
    [ud EXCEPT !.plan_normal = SinPlan, !.plan_tarjetas = SinPlan,
               !.invalid_key_attempts = 0]
RevokedUser(ud) == [ud EXCEPT !.plan_normal = SinPlan, !.plan_tarjetas = SinPlan]

\* revoke_premium_end behind check_admin.  On a non-numeric id the handler
\* replies and then raises NameError (AWAITING_ID_TO_REVOKE is not defined):
\* the conversation keeps its state.
RevokePremiumEnd(S, uid, msg, st, d) ==
    LET p == ParseInt(msg.text)
        op == "revoke_premium_end"
    IN IF ~is_admin(S, uid) THEN Res(S, R(op, uid, "Unauthorized"), st, d)
       ELSE IF ~p.ok THEN Res(S, R(op, uid, "BadIdUnhandledError"), st, d)
       ELSE IF p.val \notin DOMAIN S.users
       THEN Res(S, [R(op, uid, "UserNotFound") EXCEPT !.target = p.val], END, d)
       ELSE Res([S EXCEPT !.users = [S.users EXCEPT ![p.val] = RevokedUser(@)]],
                [R(op, uid, "Revoked") EXCEPT !.target = p.val], END, d)

\* ban_user_end behind check_admin.
BanUserEnd(S, uid, msg, st, d) ==
    LET p == ParseInt(msg.text)
        op == "ban_user_end"
    IN IF ~is_admin(S, uid) THEN Res(S, R(op, uid, "Unauthorized"), st, d)
       ELSE IF ~p.ok THEN Res(S, R(op, uid, "BadId"), st, d)
       ELSE IF InList(p.val, S.banned_users)
       THEN Res(S, [R(op, uid, "AlreadyBanned") EXCEPT !.target = p.val], END, d)
       ELSE Res([S EXCEPT !.banned_users = Append(S.banned_users, p.val)],
                [R(op, uid, "BannedByAdmin") EXCEPT !.target = p.val], END, d)

\* users after the reset of unban_user_end.
ResetAttemptsSkip(us, target) == us
ResetAttemptsAndUsage(us, target) ==
    IF target \in DOMAIN us
    THEN [us EXCEPT ![target].invalid_key_attempts = 0,
                    ![target].plan_normal.usados = 0,
                    ![target].plan_tarjetas.usados = 0]
    ELSE us
ResetAttempts(us, target) ==
    IF target \in DOMAIN us
    THEN [us EXCEPT ![target].invalid_key_attempts = 0]
    ELSE us

\* unban_user_end behind check_admin.
UnbanUserEnd(S, uid, msg, st, d) ==
    LET p == ParseInt(msg.text)
        op == "unban_user_end"
    IN IF ~is_admin(S, uid) THEN Res(S, R(op, uid, "Unauthorized"), st, d)
       ELSE IF ~p.ok THEN Res(S, R(op, uid, "BadId"), st, d)
       ELSE IF ~InList(p.val, S.banned_users)
       THEN Res(S, [R(op, uid, "NotBanned") EXCEPT !.target = p.val], END, d)
       ELSE Res([S EXCEPT !.banned_users = ListRemove(S.banned_users, p.val),
                          !.users = ResetAttempts(S.users, p.val)],
                [R(op, uid, "Unbanned") EXCEPT !.target = p.val], END, d)

\* add_admin_end behind check_super_admin.
AddAdminEnd(S, uid, msg, st, d) ==
    LET p == ParseInt(msg.text)
        op == "add_admin_end"
    IN IF ~IsSuperAdmin(uid) THEN Res(S, R(op, uid, "Unauthorized"), st, d)
       ELSE IF ~p.ok THEN Res(S, R(op, uid, "BadId"), st, d)
       ELSE IF InList(p.val, S.admins)
       THEN Res(S, [R(op, uid, "AlreadyAdmin") EXCEPT !.target = p.val], END, d)
       ELSE Res([S EXCEPT !.admins = Append(S.admins, p.val)],
                [R(op, uid, "Promoted") EXCEPT !.target = p.val], END, d)

\* rem_admin_end behind check_super_admin.
RemAdminEnd(S, uid, msg, st, d) ==
    LET p == ParseInt(msg.text)
        op == "rem_admin_end"
    IN IF ~IsSuperAdmin(uid) THEN Res(S, R(op, uid, "Unauthorized"), st, d)
       ELSE IF ~p.ok THEN Res(S, R(op, uid, "BadId"), st, d)
       ELSE IF ~InList(p.val, S.admins)
       THEN Res(S, [R(op, uid, "NotAdmin") EXCEPT !.target = p.val], END, d)
       ELSE IF p.val = ADMIN
       THEN Res(S, [R(op, uid, "CannotDemoteSuperAdmin") EXCEPT !.target = p.val], END, d)
       ELSE Res([S EXCEPT !.admins = ListRemove(S.admins, p.val)],
                [R(op, uid, "Demoted") EXCEPT !.target = p.val], END, d)


(* ----------------------------- ingestion ----------------------------- *)
\* The ctx.user_data keys of the stock flow and of the card flow.
SiteKey(kind) == IF kind = "stock" THEN "stock_site" ELSE "cards_site"
MessageKey(kind) == IF kind = "stock" THEN "stock_message" ELSE "cards_message"
BufferKey(kind) == IF kind = "stock" THEN "temp_accounts" ELSE "temp_cards"
Op(kind, stockName, cardsName) == IF kind = "stock" THEN stockName ELSE cardsName

\* get_stock_site / get_cards_site
GetSiteSkipsMessage(S, uid, kind, msg, d) ==
    Res(S, R(Op(kind, "get_stock_site", "get_cards_site"), uid, "Prompt"),
        Op(kind, "AWAITING_STOCK_ACCOUNTS", "AWAITING_CARDS_ACCOUNTS"),
        [d EXCEPT ![SiteKey(kind)] = Lower(Strip(msg.text))])
GetSite(S, uid, kind, msg, d) ==
    Res(S, R(Op(kind, "get_stock_site", "get_cards_site"), uid, "Prompt"),
        Op(kind, "AWAITING_STOCK_MESSAGE", "AWAITING_CARDS_MESSAGE"),
        [d EXCEPT ![SiteKey(kind)] = Lower(Strip(msg.text))])

\* get_stock_message / get_cards_message
GetMessage(S, uid, kind, msg, d) ==
    Res(S, R(Op(kind, "get_stock_message", "get_cards_message"), uid, "Prompt"),
        Op(kind, "AWAITING_STOCK_ACCOUNTS", "AWAITING_CARDS_ACCOUNTS"),
        [d EXCEPT ![MessageKey(kind)] = Strip(msg.text), ![BufferKey(kind)] = <<>>])

\* [acc.strip() for acc in caption.split('\n') if acc.strip()] as text items.
RECURSIVE LineItems(_)
LineItemsAll(lines) == [i \in 1..Len(lines) |-> TextItem(Strip(lines[i]))]
LineItems(lines) ==
    IF lines = <<>> THEN <<>>
    ELSE IF Strip(Head(lines)) = "" THEN LineItems(Tail(lines))
    ELSE <<TextItem(Strip(Head(lines)))>> \o LineItems(Tail(lines))

\* file_id of the media of a message.
FileId(msg) == IF msg.ftype \in {"photo", "video", "animation"}
               THEN "file_of_" \o msg.ftype ELSE "none"
FileType(msg) == IF msg.ftype \in {"photo", "video", "animation", "text"}
                 THEN msg.ftype ELSE "none"

\* receive_accounts / receive_cards
Receive(S, uid, kind, msg, st, d) ==
    LET caption == IF msg.caption # "" THEN msg.caption ELSE msg.text
        op == Op(kind, "receive_accounts", "receive_cards")
        buf == d[BufferKey(kind)]
        accounts == LineItems(SplitLines(caption))
    IN IF caption = "" THEN Res(S, R(op, uid, "NoCaption"), st, d)
       ELSE IF FileType(msg) = "text"
       THEN IF accounts = <<>>
            THEN Res(S, R(op, uid, "NoAccounts"), st, d)
            ELSE Res(S, [R(op, uid, "Added") EXCEPT !.cant = Len(accounts)], st,
                     [d EXCEPT ![BufferKey(kind)] = buf \o accounts])
       ELSE Res(S, [R(op, uid, "Added") EXCEPT !.cant = 1], st,
                [d EXCEPT ![BufferKey(kind)] =
                     Append(buf, MediaItem(Strip(caption), FileId(msg), FileType(msg)))])

\* finish_add_stock / finish_add_cards
FinishCommitsEmpty(S, uid, kind, d) ==
    LET op == Op(kind, "finish_add_stock", "finish_add_cards")
        site == d[SiteKey(kind)]
        pool == DictPool(d[MessageKey(kind)], d[BufferKey(kind)])
    IN Res(IF kind = "stock"
           THEN [S EXCEPT !.stock = DictSet(S.stock, site, pool)]
           ELSE [S EXCEPT !.cards = DictSet(S.cards, site, pool)],
           [R(op, uid, "Committed") EXCEPT !.site = site,
                                          !.cant = Len(d[BufferKey(kind)])],
           END, d)
Finish(S, uid, kind, d) ==
    LET op == Op(kind, "finish_add_stock", "finish_add_cards")
        site == d[SiteKey(kind)]
        pool == DictPool(d[MessageKey(kind)], d[BufferKey(kind)])
    IN IF d[BufferKey(kind)] = <<>>
       THEN Res(S, R(op, uid, "NothingAdded"), END, d)
       ELSE Res(IF kind = "stock"
                THEN [S EXCEPT !.stock = DictSet(S.stock, site, pool)]
                ELSE [S EXCEPT !.cards = DictSet(S.cards, site, pool)],
                [R(op, uid, "Committed") EXCEPT !.site = site,
                                               !.cant = Len(d[BufferKey(kind)])],
                END, d)

(* ----------------------------- broadcast ----------------------------- *)
\* The loop over users.keys(): one send per key inside try/except; acc
\* counts total_sent and total_failed and lists the recipients attempted.
\* A send to a recipient in fails raises.
RECURSIVE BroadcastLoop(_, _, _)
BroadcastLoopAbort(todo, fails, acc) ==
    IF todo = {} THEN acc
    ELSE LET to == CHOOSE x \in todo : \A y \in todo : x <= y
         IN IF to \in fails
            THEN [acc EXCEPT !.failed = @ + 1, !.tried = Append(@, to)]
            ELSE BroadcastLoop(todo \ {to}, fails,
                               [acc EXCEPT !.sent = @ + 1, !.tried = Append(@, to)])
BroadcastLoop(todo, fails, acc) ==
    IF todo = {} THEN acc
    ELSE LET to == CHOOSE x \in todo : \A y \in todo : x <= y
         IN BroadcastLoop(todo \ {to}, fails,
                          IF to \in fails
                          THEN [acc EXCEPT !.failed = @ + 1, !.tried = Append(@, to)]
                          ELSE [acc EXCEPT !.sent = @ + 1, !.tried = Append(@, to)])

\* receive_broadcast_content: fails are the recipients whose send raises.
\* The reply carries total_sent (cant), total_failed (rem) and the
\* recipients attempted (items).
ReceiveBroadcastContent(S, uid, msg, st, d, fails) ==
    LET op == "receive_broadcast_content"
        supported == msg.ftype \in {"photo", "video", "animation"}
                     \/ (msg.ftype = "text" /\ msg.text # "")
        sends == BroadcastLoop(DOMAIN S.users, fails,
                               [sent |-> 0, failed |-> 0, tried |-> <<>>])
    IN IF ~supported THEN Res(S, R(op, uid, "Unsupported"), st, d)
       ELSE Res(S, [R(op, uid, "BroadcastDone") EXCEPT
                        !.cant = sends.sent, !.rem = sends.failed,
                        !.items = sends.tried],
                END, d)

(* ----------------------------- dispatcher ---------------------------- *)
\* The handlers are tried in the order they were added: the position in
\* Convs of the first conversation whose state is in the set takes, or 0.
FirstConv(cv, takes) ==
    LET hits == {i \in 1..Len(Convs) : cv[Convs[i]] \in takes}
    IN IF hits = {} THEN 0 ELSE CHOOSE i \in hits : \A j \in hits : i <= j

\* The states of the conversations.
States == {"BROADCAST_CONTENT", "AWAITING_STOCK_SITE", "AWAITING_STOCK_MESSAGE",
           "AWAITING_STOCK_ACCOUNTS", "AWAITING_CARDS_SITE", "AWAITING_CARDS_MESSAGE",
           "AWAITING_CARDS_ACCOUNTS", "AWAITING_USER_ID_TO_BAN",
           "AWAITING_USER_ID_TO_UNBAN", "AWAITING_ADMIN_ID",
           "AWAITING_REMOVE_ADMIN_ID", "AWAITING_USER_ID_TO_REVOKE"}

\* The callback of conversation c in state st for a message.
OnMessage(S, uid, c, st, msg, d, fails) ==
    CASE st = "BROADCAST_CONTENT" -> ReceiveBroadcastContent(S, uid, msg, st, d, fails)
      [] st = "AWAITING_STOCK_SITE" -> GetSite(S, uid, "stock", msg, d)
      [] st = "AWAITING_STOCK_MESSAGE" -> GetMessage(S, uid, "stock", msg, d)
      [] st = "AWAITING_STOCK_ACCOUNTS" -> Receive(S, uid, "stock", msg, st, d)
      [] st = "AWAITING_CARDS_SITE" -> GetSite(S, uid, "cards", msg, d)
      [] st = "AWAITING_CARDS_MESSAGE" -> GetMessage(S, uid, "cards", msg, d)
      [] st = "AWAITING_CARDS_ACCOUNTS" -> Receive(S, uid, "cards", msg, st, d)
      [] st = "AWAITING_USER_ID_TO_BAN" -> BanUserEnd(S, uid, msg, st, d)
      [] st = "AWAITING_USER_ID_TO_UNBAN" -> UnbanUserEnd(S, uid, msg, st, d)
      [] st = "AWAITING_ADMIN_ID" -> AddAdminEnd(S, uid, msg, st, d)
      [] st = "AWAITING_REMOVE_ADMIN_ID" -> RemAdminEnd(S, uid, msg, st, d)
      [] OTHER -> RevokePremiumEnd(S, uid, msg, st, d)


(* ------------------------------ inputs ------------------------------- *)
\* Codes a user may present to /key: every code gen can produce, and one
\* that was never generated.
AllCodes == {<<GenPrefix(Planes[i][1]), x>> : i \in 1..Len(Planes), x \in Suffixes}
            \cup {<<"superpro", x>> : x \in Suffixes}
            \cup {<<"tarjeta", x>> : x \in Suffixes}
            \cup {BogusCode}
SiteArgs == {"NETFLIX", "Visa"}
CantArgs == {"-1", "0", "1", "2", "x"}

IdMsgs == {TextMsg("1"), TextMsg("2"), TextMsg("3"), TextMsg("abc")}
SiteMsgs == {TextMsg(" Netflix ")}
UsageMsgs == {TextMsg("N/A")}
ItemMsgs == {TextMsg("acc1\nacc2"), TextMsg("acc3\n "), TextMsg(" "),
             MediaMsg("photo", "accP"), MediaMsg("video", "")}
BroadcastMsgs == {TextMsg("hola"), MediaMsg("photo", "promo"), MediaMsg("document", "")}
OtherMsgs == {TextMsg("hola")}
AllMsgs == IdMsgs \cup SiteMsgs \cup UsageMsgs \cup ItemMsgs \cup BroadcastMsgs

\* The messages enumerated for the state that handles them.
MsgsFor(st) ==
    CASE st = "BROADCAST_CONTENT" -> BroadcastMsgs
      [] st \in {"AWAITING_STOCK_SITE", "AWAITING_CARDS_SITE"} -> SiteMsgs
      [] st \in {"AWAITING_STOCK_MESSAGE", "AWAITING_CARDS_MESSAGE"} -> UsageMsgs
      [] st \in {"AWAITING_STOCK_ACCOUNTS", "AWAITING_CARDS_ACCOUNTS"} -> ItemMsgs
      [] st = END -> OtherMsgs
      [] OTHER -> IdMsgs

(* ------------------------------- Init -------------------------------- *)
Plan(nombre, max, usados) == [nombre |-> nombre, max |-> max, usados |-> usados]
User(pn, pt, n) == [plan_normal |-> pn, plan_tarjetas |-> pt, invalid_key_attempts |-> n]
KeyA(usos) == <<GenPrefix(usos), "A">>

\* No file exists yet: load_data returns its default for every collection.
FreshStore ==
    [users |-> EmptyMap, claves |-> EmptyMap, card_keys |-> EmptyMap,
     stock |-> <<>>, cards |-> <<>>, banned_users |-> <<>>, admins |-> <<>>]

\* Files of an earlier run: a legacy list pool, an ingested card pool, unused
\* keys, users with fresh plans.
LegacyStore ==
    [users |-> (2 :> User(Plan("Plata 2", 2, 0), Plan("Plan Tarjetas", 1, 0), 0))
               @@ (3 :> User(Plan("Bronce 1", 1, 0), Plan("Plan Tarjetas", 1, 0), 0)),
     claves |-> (KeyA(1) :> <<"Bronce 1", 1>>) @@ (KeyA(2) :> <<"Plata 2", 2>>),
     card_keys |-> (<<"tarjeta", "A">> :> <<"Plan Tarjetas", CardKeyMax>>),
     stock |-> << [k |-> "netflix",
                   v |-> LegacyPool(<<LegacyItem("a"), LegacyItem("b"), LegacyItem("c")>>)] >>,
     cards |-> << [k |-> "netflix",
                   v |-> DictPool("N/A", <<TextItem("c1"), TextItem("c2")>>)] >>,
     banned_users |-> <<>>, admins |-> <<2>>]

\* The same with a single item left in the legacy pool.
ShortLegacyStore ==
    [LegacyStore EXCEPT !.stock = << [k |-> "netflix", v |-> LegacyPool(<<LegacyItem("a")>>)] >>]

\* Files written by this version: an ingested pool with a media item, a pool
\* stored under a mixed-case key, a user banned by the policy.
RichStore ==
    [users |-> (2 :> User(Plan("Oro 3", 3, 1), Plan("Plan Tarjetas", 1, 0), 2))
               @@ (3 :> User(SinPlan, SinPlan, 3)),
     claves |-> (KeyA(1) :> <<"Bronce 1", 1>>),
     card_keys |-> (<<"tarjeta", "A">> :> <<"Plan Tarjetas", CardKeyMax>>),
     stock |-> << [k |-> "netflix",
                   v |-> DictPool("usa VPN", <<TextItem("acc1"),
                                              MediaItem("acc2", "file_of_photo", "photo")>>)] >>,
     cards |-> << [k |-> "Visa", v |-> LegacyPool(<<LegacyItem("c1"), LegacyItem("c2")>>)] >>,
     banned_users |-> <<3>>, admins |-> <<>>]

InitStores == {FreshStore, LegacyStore, ShortLegacyStore, RichStore}

\* hist[u]: run = invalid /key attempts of u since its record was created or
\* since the last unban of u; unbanned = u was unbanned at least once;
\* manual = an admin banned u, tripped = /key answered Banned to u, both
\* since the files were loaded or since the last unban of u.
InitHist(S) == [u \in UserIds |->
                  [run |-> IF u \in DOMAIN S.users
                           THEN S.users[u].invalid_key_attempts ELSE 0,
                   unbanned |-> FALSE, manual |-> FALSE, tripped |-> FALSE]]

HistAfter(h, r) ==
    IF r.op = "key_cmd" /\ r.out = "InvalidKey"
    THEN [h EXCEPT ![r.uid].run = @ + 1]
    ELSE IF r.op = "key_cmd" /\ r.out = "Banned"
    THEN [h EXCEPT ![r.uid].run = @ + 1, ![r.uid].tripped = TRUE]
    ELSE IF r.op = "unban_user_end" /\ r.out = "Unbanned" /\ r.target \in UserIds
    THEN [h EXCEPT ![r.target] = [run |-> 0, unbanned |-> TRUE, manual |-> FALSE,
                                  tripped |-> FALSE]]
    ELSE IF r.op = "ban_user_end" /\ r.out = "BannedByAdmin" /\ r.target \in UserIds
    THEN [h EXCEPT ![r.target].manual = TRUE]
    ELSE h

\* spent after a handler: a consumed code enters, a code present again leaves.
SpentAfter(sp, S2, r) ==
    ((IF r.op = "key_cmd" /\ r.out = "Activated" THEN sp \cup {r.code} ELSE sp)
     \ (IF r.op \in {"gen_cmd", "super_pro_key_cmd", "gen_cards_key_cmd"}
        THEN (DOMAIN S2.claves) \cup (DOMAIN S2.card_keys) ELSE {}))

\* ledger: for each namespace and pool key, base = the items of the pool
\* when the files were loaded or when an ingestion session last committed
\* to the key, out = the items the /get served from it have delivered since,
\* in the order of the deliveries.
LedgerOf(d) == [k \in DictKeys(d) |-> [base |-> DictGet(d, k).items, out |-> <<>>]]
InitLedger(S) == [normal |-> LedgerOf(S.stock), tarjetas |-> LedgerOf(S.cards)]

LedgerAfter(l, S2, r) ==
    IF r.op = "get_cmd" /\ r.out = "Delivered" /\ r.site \in DOMAIN l[r.kind]
    THEN [l EXCEPT ![r.kind][r.site].out = @ \o r.items]
    ELSE IF r.op = "finish_add_stock" /\ r.out = "Committed"
    THEN [l EXCEPT !.normal = MapSet(@, r.site,
                                     [base |-> DictGet(S2.stock, r.site).items,
                                      out |-> <<>>])]
    ELSE IF r.op = "finish_add_cards" /\ r.out = "Committed"
    THEN [l EXCEPT !.tarjetas = MapSet(@, r.site,
                                       [base |-> DictGet(S2.cards, r.site).items,
                                        out |-> <<>>])]
    ELSE l

\* The codes presented to /key: the unused keys, the consumed ones and one
\* that was never generated.
CodeInputs == (DOMAIN claves) \cup (DOMAIN card_keys) \cup spent \cup {BogusCode}

\* No burst of updates is in flight.
NoConc == [store0 |-> FreshStore, reqs |-> <<>>, order |-> <<>>]

\* The process starts on the files S with every conversation idle; n updates
\* are explored.
InitOn(S, n) ==
    /\ users = S.users
    /\ claves = S.claves
    /\ card_keys = S.card_keys
    /\ stock = S.stock
    /\ cards = S.cards
    /\ banned_users = S.banned_users
    /\ admins = S.admins
    /\ hist = InitHist(S)
    /\ ledger = InitLedger(S)
    /\ conv = [u \in UserIds |-> IdleConv]
    /\ user_data = [u \in UserIds |-> EmptyUserData]
    /\ reply = NoReply
    /\ spent = {}
    /\ budget = n

Init ==
    /\ \E S \in InitStores : InitOn(S, MaxSteps)
    /\ conc = NoConc

(* ------------------------------ actions ------------------------------ *)
\* The files and the reply after a handler.  budget is the number of updates
\* still explored: a handler call that leaves the files, the conversations
\* and the sessions as they were leads to no new state of the program and is
\* explored as the last update of a run.
Commit(res, cv, ud) ==
    /\ budget > 0
    /\ users' = res.s.users
    /\ claves' = res.s.claves
    /\ card_keys' = res.s.card_keys
    /\ stock' = res.s.stock
    /\ cards' = res.s.cards
    /\ banned_users' = res.s.banned_users
    /\ admins' = res.s.admins
    /\ conv' = cv
    /\ user_data' = ud
    /\ reply' = res.r
    /\ hist' = HistAfter(hist, res.r)
    /\ spent' = SpentAfter(spent, res.s, res.r)
    /\ ledger' = LedgerAfter(ledger, res.s, res.r)
    /\ budget' = IF res.s = Store /\ cv = conv /\ ud = user_data
                 THEN 0 ELSE budget - 1
    /\ conc' = conc

\* /start, /key CLAVE, /get sitio cantidad
Start(u) ==
    /\ Commit(StartCmd(Store, u), conv, user_data)

Key(u, clave) ==
    /\ Commit(KeyCmd(Store, u, clave), conv, user_data)

Get(u, sitio, cant) ==
    /\ Commit(GetCmd(Store, u, sitio, cant), conv, user_data)

\* The key buttons of the admin panel.
Gen(u, sf) ==
    /\ Commit(GenCmd(Store, u, sf), conv, user_data)

SuperProKey(u, sfx) ==
    /\ Commit(SuperProKeyCmd(Store, u, sfx), conv, user_data)

GenCardsKey(u, sfx) ==
    /\ Commit(GenCardsKeyCmd(Store, u, sfx), conv, user_data)

\* A conversation callback's result applied to user u's conversation c.
CommitConv(u, c, res) ==
    Commit(res, [conv EXCEPT ![u][c] = res.st], [user_data EXCEPT ![u] = res.d])

\* The start button of conversation c: an entry point is tried only while
\* the user's conversation c is not open.
Entry(u, c) ==
    /\ budget > 0
    /\ conv[u][c] = END
    /\ CommitConv(u, c, EntryStart(Store, u, c, user_data[u]))

\* A text or media message: the first conversation whose state accepts it,
\* otherwise handle_unknown_messages.  fails = the recipients whose send
\* raises during a broadcast.
Message(u, msg) ==
    /\ budget > 0
    /\ LET i == FirstConv(conv[u], {st \in States : Accepts(st, msg)})
       IN IF i = 0
          THEN /\ msg \in OtherMsgs
               /\ Commit([s |-> Store, r |-> R("handle_unknown_messages", u, "Unknown")],
                         conv, user_data)
          ELSE /\ msg \in MsgsFor(conv[u][Convs[i]])
               /\ \E fails \in (IF conv[u][Convs[i]] = "BROADCAST_CONTENT"
                                 THEN SUBSET (DOMAIN users) ELSE {{}}) :
                     CommitConv(u, Convs[i],
                                OnMessage(Store, u, Convs[i], conv[u][Convs[i]], msg,
                                          user_data[u], fails))

\* /done: CommandHandler of the AWAITING_*_ACCOUNTS states.
Done(u) ==
    /\ budget > 0
    /\ LET i == FirstConv(conv[u], {"AWAITING_STOCK_ACCOUNTS", "AWAITING_CARDS_ACCOUNTS"})
       IN /\ i # 0
          /\ CommitConv(u, Convs[i],
                        Finish(Store, u, IF Convs[i] = "add_stock" THEN "stock" ELSE "cards",
                               user_data[u]))

\* /cancel: the fallback of the first open conversation.
Cancel(u) ==
    /\ budget > 0
    /\ LET i == FirstConv(conv[u], States)
       IN /\ i # 0
          /\ CommitConv(u, Convs[i], CancelConv(Store, u, user_data[u]))

\* The conversations of the moderation panel.
ModerationConvs == {"revoke", "ban", "unban"}

\* The entitlement engine with the moderation panel.
Next ==
    \/ \E u \in UserIds : Start(u)
    \/ \E u \in UserIds, clave \in CodeInputs : Key(u, clave)
    \/ \E u \in UserIds, sitio \in SiteArgs, cant \in CantArgs : Get(u, sitio, cant)
    \/ \E u \in Operators, sf \in [1..Len(Planes) -> Suffixes] : Gen(u, sf)
    \/ \E u \in Operators, sfx \in Suffixes : SuperProKey(u, sfx)
    \/ \E u \in Operators, sfx \in Suffixes : GenCardsKey(u, sfx)
    \/ \E u \in Operators, c \in ModerationConvs : Entry(u, c)
    \/ \E u \in Operators, msg \in IdMsgs \cup OtherMsgs : Message(u, msg)
    \/ \E u \in Operators : Cancel(u)

Spec == Init /\ [][Next]_vars

\* Every handler main() registers for a button, a command or a message.
NextAll ==
    \/ \E u \in UserIds : Start(u)
    \/ \E u \in UserIds, clave \in CodeInputs : Key(u, clave)
    \/ \E u \in UserIds, sitio \in SiteArgs, cant \in CantArgs : Get(u, sitio, cant)
    \/ \E u \in Operators, sf \in [1..Len(Planes) -> Suffixes] : Gen(u, sf)
    \/ \E u \in Operators, sfx \in Suffixes : SuperProKey(u, sfx)
    \/ \E u \in Operators, sfx \in Suffixes : GenCardsKey(u, sfx)
    \/ \E u \in Operators, i \in 1..Len(Convs) : Entry(u, Convs[i])
    \/ \E u \in Operators, msg \in AllMsgs : Message(u, msg)
    \/ \E u \in Operators : Done(u)
    \/ \E u \in Operators : Cancel(u)

SpecAll == Init /\ [][NextAll]_vars

(* --------------------------- abuse policy ---------------------------- *)
\* The abuse policy alone, explored deeper: /key, and the ban and unban
\* conversations.
InitAbuse ==
    /\ \E S \in InitStores : InitOn(S, MaxAbuseSteps)
    /\ conc = NoConc

NextAbuse ==
    \/ \E u \in UserIds, clave \in CodeInputs : Key(u, clave)
    \/ \E u \in Operators, c \in {"ban", "unban"} : Entry(u, c)
    \/ \E u \in Operators, msg \in IdMsgs : Message(u, msg)
    \/ \E u \in Operators : Cancel(u)

SpecAbuse == InitAbuse /\ [][NextAbuse]_vars

(* ----------------------------- ingestion runs ------------------------ *)
\* The conversations that collect a payload over several messages.
PayloadConvs == {"broadcast", "add_stock", "add_cards"}
PayloadMsgs == SiteMsgs \cup UsageMsgs \cup ItemMsgs \cup BroadcastMsgs

InitIngest ==
    /\ \E S \in {LegacyStore, RichStore} : InitOn(S, MaxIngestSteps)
    /\ conc = NoConc

NextIngest ==
    \/ \E u \in Operators, c \in PayloadConvs : Entry(u, c)
    \/ \E u \in Operators, msg \in PayloadMsgs : Message(u, msg)
    \/ \E u \in Operators : Done(u)
    \/ \E u \in Operators : Cancel(u)

SpecIngest == InitIngest /\ [][NextIngest]_vars

(* ----------------------- ingestion and fetches ----------------------- *)
\* The super-admin runs ingestion sessions while the users fetch: deep
\* enough for a session to commit and for fetches to follow the commit.
MaxStockSteps == 7
StockMsgs == SiteMsgs \cup UsageMsgs \cup {TextMsg("acc1\nacc2"), MediaMsg("photo", "accP")}

InitStock ==
    /\ \E S \in {LegacyStore, RichStore} : InitOn(S, MaxStockSteps)
    /\ conc = NoConc

NextStock ==
    \/ \E u \in UserIds, sitio \in SiteArgs, cant \in CantArgs : Get(u, sitio, cant)
    \/ \E c \in {"add_stock", "add_cards"} : Entry(ADMIN, c)
    \/ \E msg \in StockMsgs : Message(ADMIN, msg)
    \/ Done(ADMIN)

SpecStock == InitStock /\ [][NextStock]_vars

(* --------------------------- failing saves --------------------------- *)
\* The files after each save_data call of a handler, in the order of the
\* calls.  key_cmd saves users (the caller's record completed), then the key
\* collection and users (activation), or users and then banned_users
\* (invalid code); get_cmd saves the pools and then users; unban_user_end
\* saves banned_users and then users.
KeySaves(S, uid, clave) ==
    LET res == KeyCmd(S, uid, clave)
        S1 == [S EXCEPT !.users = MapSet(S.users, uid,
                                         IF uid \in DOMAIN S.users THEN S.users[uid]
                                         ELSE NewUser)]
    IN CASE res.r.out = "Activated" ->
              <<S1, [S1 EXCEPT !.claves = res.s.claves, !.card_keys = res.s.card_keys], res.s>>
         [] res.r.out = "PlanAlreadyActive" -> <<S1>>
         [] res.r.out = "InvalidKey" -> <<S1, res.s>>
         [] res.r.out = "Banned" ->
              <<S1, [S1 EXCEPT !.users = res.s.users]>>
              \o (IF res.s.banned_users # S.banned_users THEN <<res.s>> ELSE <<>>)
         [] OTHER -> <<>>

GetSaves(S, uid, sitio, cant) ==
    LET res == GetCmd(S, uid, sitio, cant)
    IN IF res.r.out = "Delivered"
       THEN <<[S EXCEPT !.stock = res.s.stock, !.cards = res.s.cards], res.s>>
       ELSE <<>>

UnbanSaves(S, uid, msg, d) ==
    LET res == UnbanUserEnd(S, uid, msg, "AWAITING_USER_ID_TO_UNBAN", d)
    IN IF res.r.out = "Unbanned"
       THEN <<[S EXCEPT !.banned_users = res.s.banned_users]>>
            \o (IF res.r.target \in DOMAIN S.users THEN <<res.s>> ELSE <<>>)
       ELSE <<>>

\* A handler whose save_data call number k + 1 raises: the files are those
\* of its first k saves, the handler sends nothing, a conversation keeps its
\* state.
Interrupted(op, uid, saves, k) ==
    /\ conc = NoConc
    /\ k \in 1..(Len(saves) - 1)
    /\ Commit([s |-> saves[k], r |-> R(op, uid, "StoreFailure")], conv, user_data)

KeyInterrupted(u, clave, k) ==
    Interrupted("key_cmd", u, KeySaves(Store, u, clave), k)

GetInterrupted(u, sitio, cant, k) ==
    Interrupted("get_cmd", u, GetSaves(Store, u, sitio, cant), k)

UnbanInterrupted(u, msg, k) ==
    /\ conv[u]["unban"] = "AWAITING_USER_ID_TO_UNBAN"
    /\ LET i == FirstConv(conv[u], {st \in States : Accepts(st, msg)})
       IN i # 0 /\ Convs[i] = "unban"
    /\ Interrupted("unban_user_end", u, UnbanSaves(Store, u, msg, user_data[u]), k)

InitFail ==
    /\ \E S \in InitStores : InitOn(S, MaxFailSteps)
    /\ conc = NoConc

NextFail ==
    \/ \E u \in UserIds, clave \in CodeInputs : Key(u, clave)
    \/ \E u \in UserIds, sitio \in SiteArgs, cant \in CantArgs : Get(u, sitio, cant)
    \/ \E u \in Operators : Entry(u, "unban")
    \/ \E u \in Operators, msg \in IdMsgs : Message(u, msg)
    \/ \E u \in UserIds, clave \in CodeInputs, k \in 1..2 : KeyInterrupted(u, clave, k)
    \/ \E u \in UserIds, sitio \in SiteArgs, cant \in CantArgs : GetInterrupted(u, sitio, cant, 1)
    \/ \E u \in Operators, msg \in IdMsgs : UnbanInterrupted(u, msg, 1)

SpecFail == InitFail /\ [][NextFail]_vars

(* -------------------------- unreadable files ------------------------- *)
\* Updates explored from the loaded files when a file may be unreadable
\* and a send may raise.
MaxLoadSteps == 2

\* load_data on a file that is missing or is not valid JSON logs a warning
\* and returns the default: the collections in bad are read as empty.
LoadData(S, bad) ==
    [users |-> IF "users" \in bad THEN EmptyMap ELSE S.users,
     claves |-> IF "claves" \in bad THEN EmptyMap ELSE S.claves,
     card_keys |-> IF "card_keys" \in bad THEN EmptyMap ELSE S.card_keys,
     stock |-> IF "stock" \in bad THEN <<>> ELSE S.stock,
     cards |-> IF "cards" \in bad THEN <<>> ELSE S.cards,
     banned_users |-> IF "banned_users" \in bad THEN <<>> ELSE S.banned_users,
     admins |-> IF "admins" \in bad THEN <<>> ELSE S.admins]

\* The files after a handler that read L in place of S and ended with T:
\* save_data rewrites the collections the handler changed and those in
\* always (saved unconditionally); every other file is left as it was.
SaveData(S, L, T, always) ==
    [users |-> IF "users" \in always \/ T.users # L.users THEN T.users ELSE S.users,
     claves |-> IF "claves" \in always \/ T.claves # L.claves THEN T.claves ELSE S.claves,
     card_keys |-> IF T.card_keys # L.card_keys THEN T.card_keys ELSE S.card_keys,
     stock |-> IF T.stock # L.stock THEN T.stock ELSE S.stock,
     cards |-> IF T.cards # L.cards THEN T.cards ELSE S.cards,
     banned_users |-> IF T.banned_users # L.banned_users THEN T.banned_users
                      ELSE S.banned_users,
     admins |-> S.admins]

\* The sets of files that are unreadable during one update.
BadFiles == {{"users"}, {"claves"}, {"banned_users"}, {"stock"}, {"admins"}}

\* key_cmd, get_cmd and gen_cmd while the files in bad are unreadable.
\* key_cmd saves users at line 292 whatever the code; gen_cmd saves claves.
KeyCmdUnreadable(S, uid, clave, bad) ==
    LET L == LoadData(S, bad)
        res == KeyCmd(L, uid, clave)
    IN [s |-> SaveData(S, L, res.s,
                       IF res.r.out = "BanRejected" THEN {} ELSE {"users"}),
        r |-> res.r]

GetCmdUnreadable(S, uid, sitio, cant, bad) ==
    LET L == LoadData(S, bad)
        res == GetCmd(L, uid, sitio, cant)
    IN [s |-> SaveData(S, L, res.s, {}), r |-> res.r]

GenCmdUnreadable(S, uid, sf, bad) ==
    LET L == LoadData(S, bad)
        res == GenCmd(L, uid, sf)
    IN [s |-> SaveData(S, L, res.s,
                       IF res.r.out = "Unauthorized" THEN {} ELSE {"claves"}),
        r |-> res.r]

\* The sends of get_cmd after its saves.  From a dict pool every item is
\* sent by itself: a media item inside try/except whose handler sends the
\* text with nothing around it, any other item by send_message with nothing
\* around it.  raises[i] holds the sends of item i that raise ("media",
\* "text").  A legacy pool goes out as one message.  tried is the number of
\* items whose send was attempted, raised tells an exception left get_cmd.
Raises == {{}, {"media"}, {"text"}, {"media", "text"}}
RECURSIVE SendLoop(_, _, _)
SendLoop(items, raises, i) ==
    IF i > Len(items) THEN [tried |-> Len(items), raised |-> FALSE]
    ELSE LET media == items[i].file_id # "none" /\ items[i].file_type # "none"
             sends == items[i].file_type \in {"photo", "video", "animation"}
             escapes == IF media
                        THEN sends /\ {"media", "text"} \subseteq raises[i]
                        ELSE "text" \in raises[i]
         IN IF escapes THEN [tried |-> i, raised |-> TRUE]
            ELSE SendLoop(items, raises, i + 1)

GetCmdUndelivered(S, uid, sitio, cant, raises) ==
    LET res == GetCmd(S, uid, sitio, cant)
        pool == DictGet(IF res.r.kind = "normal" THEN S.stock ELSE S.cards, res.r.site)
        sent == IF pool.shape = "dict" THEN SendLoop(res.r.items, raises, 1)
                ELSE [tried |-> Len(res.r.items), raised |-> "text" \in raises[1]]
    IN IF res.r.out # "Delivered" THEN res
       ELSE [s |-> res.s,
             r |-> [res.r EXCEPT !.out = IF sent.raised THEN "DeliveryRaised"
                                         ELSE "Delivered",
                                 !.cant = sent.tried]]

GetUndelivered(u, sitio, cant, raises) ==
    /\ conc = NoConc
    /\ Commit(GetCmdUndelivered(Store, u, sitio, cant, raises), conv, user_data)

KeyUnreadable(u, clave, bad) ==
    /\ conc = NoConc
    /\ Commit(KeyCmdUnreadable(Store, u, clave, bad), conv, user_data)

GetUnreadable(u, sitio, cant, bad) ==
    /\ conc = NoConc
    /\ Commit(GetCmdUnreadable(Store, u, sitio, cant, bad), conv, user_data)

GenUnreadable(u, sf, bad) ==
    /\ conc = NoConc
    /\ Commit(GenCmdUnreadable(Store, u, sf, bad), conv, user_data)

InitLoad ==
    /\ \E S \in {LegacyStore, RichStore} : InitOn(S, MaxLoadSteps)
    /\ conc = NoConc

NextLoad ==
    \/ \E u \in UserIds, clave \in CodeInputs : Key(u, clave)
    \/ \E u \in UserIds, sitio \in SiteArgs, cant \in CantArgs : Get(u, sitio, cant)
    \/ \E u \in UserIds, clave \in CodeInputs, bad \in BadFiles :
          KeyUnreadable(u, clave, bad)
    \/ \E u \in UserIds, sitio \in SiteArgs, cant \in CantArgs, bad \in BadFiles :
          GetUnreadable(u, sitio, cant, bad)
    \/ \E u \in Operators, bad \in BadFiles :
          GenUnreadable(u, [i \in 1..Len(Planes) |-> "A"], bad)
    \/ \E u \in UserIds, sitio \in SiteArgs, cant \in CantArgs,
          raises \in [1..2 -> Raises] : GetUndelivered(u, sitio, cant, raises)

SpecLoad == InitLoad /\ [][NextLoad]_vars

(* ------------------------- bursts of updates ------------------------- *)
\* Application.builder().token(TOKEN).build() sets no concurrent_updates:
\* the dispatcher awaits the handler of an update before it takes the next.
ConcurrentUpdates == FALSE

\* A burst: updates sent at the same time reach the update queue in any
\* order.  An update is queued, then its handler runs its synchronous part
\* (from the ban check to the last save_data, no await in between), then
\* awaits its sends one by one, then returns.
Labels == <<"i1", "i2", "i3", "i4", "i5">>
BurstItems(n, shape) ==
    [k \in 1..n |-> IF shape = "list" THEN LegacyItem(Labels[k]) ELSE TextItem(Labels[k])]
BurstPool(n, shape) ==
    IF shape = "list" THEN LegacyPool(BurstItems(n, shape))
    ELSE DictPool("N/A", BurstItems(n, shape))

\* n users with balance for one item or more, a pool of exactly n items.
FetchBurstStore(n, shape, ns) ==
    [FreshStore EXCEPT
       !.users = [u \in 1..n |->
                    IF ns = "normal"
                    THEN User(Plan("Plata 2", 2, 0), SinPlan, 0)
                    ELSE User(SinPlan, Plan("Plan Tarjetas", 1, 0), 0)],
       !.stock = IF ns = "normal"
                 THEN << [k |-> "netflix", v |-> BurstPool(n, shape)] >> ELSE <<>>,
       !.cards = IF ns = "normal"
                 THEN <<>> ELSE << [k |-> "netflix", v |-> BurstPool(n, shape)] >>]

\* One unused key of namespace ns, users 2 and 3 without a plan.
KeyBurstStore(ns) ==
    [FreshStore EXCEPT
       !.users = (2 :> NewUser) @@ (3 :> NewUser),
       !.claves = IF ns = "normal" THEN (KeyA(2) :> <<"Plata 2", 2>>) ELSE EmptyMap,
       !.card_keys = IF ns = "normal" THEN EmptyMap
                     ELSE (<<"tarjeta", "A">> :> <<"Plan Tarjetas", CardKeyMax>>)]

Req(cmd, uid, code, site, cant) ==
    [cmd |-> cmd, uid |-> uid, code |-> code, site |-> site, cant |-> cant,
     pc |-> "queued", out |-> "none", items |-> <<>>, sent |-> <<>>]

FetchBurst(n) == [t \in 1..n |-> Req("get", t, NoCode, "netflix", "1")]
KeyBurst(ns, u1, u2) ==
    LET k == IF ns = "normal" THEN KeyA(2) ELSE <<"tarjeta", "A">>
    IN << Req("key", u1, k, "", ""), Req("key", u2, k, "", "") >>

InitConc ==
    /\ \/ \E n \in 2..MaxBurst, shape \in {"list", "dict"}, ns \in {"normal", "tarjetas"} :
            /\ InitOn(FetchBurstStore(n, shape, ns), 0)
            /\ conc = [store0 |-> FetchBurstStore(n, shape, ns),
                       reqs |-> FetchBurst(n), order |-> <<>>]
       \/ \E ns \in {"normal", "tarjetas"}, u2 \in {2, 3} :
            /\ InitOn(KeyBurstStore(ns), 0)
            /\ conc = [store0 |-> KeyBurstStore(ns),
                       reqs |-> KeyBurst(ns, 2, u2), order |-> <<>>]

\* The handler of request q on the files S.
HandleSavesLater(S, q) ==
    IF q.cmd = "get" THEN [s |-> S, r |-> GetCmd(S, q.uid, q.site, q.cant).r]
    ELSE KeyCmd(S, q.uid, q.code)
Handle(S, q) ==
    IF q.cmd = "get" THEN GetCmd(S, q.uid, q.site, q.cant)
    ELSE KeyCmd(S, q.uid, q.code)

Idle(q) == q.pc \in {"queued", "done"}

\* The dispatcher takes update t from the queue.
Dispatch(t) ==
    /\ conc.reqs[t].pc = "queued"
    /\ ConcurrentUpdates \/ \A j \in DOMAIN conc.reqs : Idle(conc.reqs[j])
    /\ conc' = [conc EXCEPT !.reqs[t].pc = "running", !.order = Append(@, t)]
    /\ UNCHANGED <<users, claves, card_keys, stock, cards, banned_users, admins,
                   conv, user_data, reply, hist, spent, ledger, budget>>

\* The handler of t runs from its ban check to its last save_data.
Run(t) ==
    /\ conc.reqs[t].pc = "running"
    /\ LET res == Handle(Store, conc.reqs[t])
       IN /\ users' = res.s.users
          /\ claves' = res.s.claves
          /\ card_keys' = res.s.card_keys
          /\ stock' = res.s.stock
          /\ cards' = res.s.cards
          /\ banned_users' = res.s.banned_users
          /\ admins' = res.s.admins
          /\ reply' = res.r
          /\ conc' = [conc EXCEPT !.reqs[t].pc = "sending",
                                  !.reqs[t].out = res.r.out,
                                  !.reqs[t].items = res.r.items]
    /\ UNCHANGED <<conv, user_data, hist, spent, ledger, budget>>

\* The handler of t awaits the send of its next item.
SendItem(t) ==
    /\ conc.reqs[t].pc = "sending"
    /\ Len(conc.reqs[t].sent) < Len(conc.reqs[t].items)
    /\ conc' = [conc EXCEPT !.reqs[t].sent =
                                Append(@, conc.reqs[t].items[Len(@) + 1])]
    /\ UNCHANGED <<users, claves, card_keys, stock, cards, banned_users, admins,
                   conv, user_data, reply, hist, spent, ledger, budget>>

\* The handler of t has sent everything (for /key, its one answer) and returns.
Return(t) ==
    /\ conc.reqs[t].pc = "sending"
    /\ Len(conc.reqs[t].sent) = Len(conc.reqs[t].items)
    /\ conc' = [conc EXCEPT !.reqs[t].pc = "done"]
    /\ UNCHANGED <<users, claves, card_keys, stock, cards, banned_users, admins,
                   conv, user_data, reply, hist, spent, ledger, budget>>

NextConc ==
    \/ \E t \in DOMAIN conc.reqs : Dispatch(t)
    \/ \E t \in DOMAIN conc.reqs : Run(t)
    \/ \E t \in DOMAIN conc.reqs : SendItem(t)
    \/ \E t \in DOMAIN conc.reqs : Return(t)

SpecConc == InitConc /\ [][NextConc]_vars

(* ====================== properties of the engine ===================== *)
Keys(S) == (DOMAIN S.claves) \cup (DOMAIN S.card_keys)
\* The record of u, a user without record counting as a new one.
UserOf(S, u) == IF u \in DOMAIN S.users THEN S.users[u] ELSE NewUser
PlansOf(S) == [u \in UserIds |-> <<UserOf(S, u).plan_normal, UserOf(S, u).plan_tarjetas>>]
AttemptsOf(S) == [u \in UserIds |-> UserOf(S, u).invalid_key_attempts]
PlanOfKind(S, u, ns) == UserOf(S, u)[PlanField(ns)]
PoolsOf(S, ns) == IF ns = "normal" THEN S.stock ELSE S.cards

\* C1: a key is redeemed at most once.  A /key answered Activated takes a
\* code that is in a key collection and leaves it in neither; a code a /key
\* consumed is in neither collection (until a generation issues that code
\* again); and a /key with a code that is in neither collection activates no
\* plan, changes no key collection, and is answered as an unknown code
\* (InvalidKey, or Banned at the threshold) for every user the ban check lets
\* through.
C1_RedeemOnce ==
    /\ spent \cap Keys(Store) = {}
    /\ \A u \in UserIds, k \in AllCodes :
         LET res == KeyCmd(Store, u, k)
         IN /\ res.r.out = "Activated" => k \in Keys(Store) /\ k \notin Keys(res.s)
            /\ k \notin Keys(Store) =>
                 /\ res.r.out # "Activated"
                 /\ PlansOf(res.s) = PlansOf(Store)
                 /\ res.s.claves = claves /\ res.s.card_keys = card_keys
                 /\ PassesBan(Store, u) => res.r.out \in {"InvalidKey", "Banned"}

\* A consumed key was presented again, by a user who holds no plan of its
\* kind, and was answered as an unknown code.
C1_Witness ==
    /\ reply.op = "key_cmd" /\ reply.out = "InvalidKey"
    /\ reply.code \in spent
    /\ PlanOfKind(Store, reply.uid,
                  IF reply.code[1] = "tarjeta" THEN "tarjetas" ELSE "normal").nombre = "Sin plan"

\* C2: in every reachable state usados <= max for the standard plan and for
\* the card plan of every user; and a commit of an ingestion session (/done
\* with any buffer, stock or cards) on the current files keeps it so.
WithinCap(ud) == /\ ud.plan_normal.usados <= ud.plan_normal.max
                 /\ ud.plan_tarjetas.usados <= ud.plan_tarjetas.max
SessionSamples ==
    {[EmptyUserData EXCEPT !.stock_site = "netflix", !.cards_site = "netflix",
                           !.temp_accounts = b, !.temp_cards = b] :
       b \in {<<>>, <<TextItem("acc1")>>,
              <<TextItem("acc1"), MediaItem("accP", "file_of_photo", "photo")>>}}
C2_UsageWithinCap ==
    /\ \A u \in DOMAIN users : WithinCap(users[u])
    /\ \A op \in Operators, kind \in {"stock", "cards"}, d \in SessionSamples :
         LET S2 == Finish(Store, op, kind, d).s
         IN \A u \in DOMAIN S2.users : WithinCap(S2.users[u])

\* A /get has just delivered the last uses of a plan: usados = max > 0.
C2_Witness ==
    /\ reply.op = "get_cmd" /\ reply.out = "Delivered" /\ reply.cant >= 1
    /\ PlanOfKind(Store, reply.uid, reply.kind).usados
         = PlanOfKind(Store, reply.uid, reply.kind).max

\* C3: a /get answered with a delivery of q >= 1 items has q within the
\* balance of the plan and within the depth of the pool it was served from,
\* sends exactly the first q items of that pool in their stored order, leaves
\* in the pool the remaining suffix, and adds exactly q to usados of the plan
\* of the pool's namespace; for legacy lists and for ingested pools, for
\* stock and for cards.
C3_FetchFifo ==
    \A u \in UserIds, sitio \in SiteArgs, c \in CantArgs :
      LET res == GetCmd(Store, u, sitio, c)
          q == ParseInt(c).val
          ns == res.r.kind
          i == DictIndex(PoolsOf(Store, ns), res.r.site)
          before == PoolsOf(Store, ns)[i].v
          after == PoolsOf(res.s, ns)[i].v
          plan == PlanOfKind(Store, u, ns)
      IN (res.r.out = "Delivered" /\ q >= 1) =>
           /\ q <= plan.max - plan.usados
           /\ q <= Len(before.items)
           /\ res.r.items = SubSeq(before.items, 1, q)
           /\ after.items = SubSeq(before.items, q + 1, Len(before.items))
           /\ after.shape = before.shape /\ after.message = before.message
           /\ PlanOfKind(res.s, u, ns).usados = plan.usados + q
           /\ PlanOfKind(res.s, u, ns).max = plan.max

\* The scenario of the pool [a, b, c] and a balance of 2: /get 2 has just
\* sent [a, b] and left [c] with usados 2, and a /get 1 that follows is
\* answered InsufficientBalance.
C3_Witness ==
    /\ reply.op = "get_cmd" /\ reply.out = "Delivered" /\ reply.cant = 2
    /\ reply.items = <<LegacyItem("a"), LegacyItem("b")>>
    /\ stock = << [k |-> "netflix", v |-> LegacyPool(<<LegacyItem("c")>>)] >>
    /\ PlanOfKind(Store, reply.uid, "normal").usados = 2
    /\ GetCmd(Store, reply.uid, "NETFLIX", "1").r.out = "InsufficientBalance"

\* The namespace the pool key belongs to: the standard pools when one of
\* their keys equals the key whatever the letter case, else the card pools
\* when one of theirs does, else none.
Namespace(S, sitio) ==
    IF \E i \in 1..Len(S.stock) : Lower(S.stock[i].k) = Lower(Strip(sitio)) THEN "normal"
    ELSE IF \E i \in 1..Len(S.cards) : Lower(S.cards[i].k) = Lower(Strip(sitio)) THEN "tarjetas"
    ELSE "none"
Depth(S, sitio) ==
    LET d == PoolsOf(S, Namespace(S, sitio))
    IN Len(d[CHOOSE i \in 1..Len(d) : Lower(d[i].k) = Lower(Strip(sitio))].v.items)
\* The /get reaches the balance check of the plan of the key's namespace.
ReachesBalance(S, u, sitio, c) ==
    /\ PassesBan(S, u)
    /\ ParseInt(c).ok
    /\ Namespace(S, sitio) # "none"
    /\ u \in DOMAIN S.users
    /\ PlanOfKind(S, u, Namespace(S, sitio)).nombre # "Sin plan"

\* C4: a /get whose quantity is greater than the remaining balance of the
\* plan of the pool key's namespace is answered InsufficientBalance with that
\* balance and changes nothing.
C4_OverBalance ==
    \A u \in UserIds, sitio \in SiteArgs, c \in CantArgs :
      LET res == GetCmd(Store, u, sitio, c)
          plan == PlanOfKind(Store, u, Namespace(Store, sitio))
      IN (ReachesBalance(Store, u, sitio, c) /\ ParseInt(c).val > plan.max - plan.usados) =>
           /\ res.r.out = "InsufficientBalance"
           /\ res.r.rem = plan.max - plan.usados
           /\ res.s = Store

\* C5: a /get whose quantity is within the balance of the plan of the pool
\* key's namespace and greater than the depth of the pool is answered
\* insufficient stock and changes nothing: no item leaves a pool, none is
\* sent, usados stays.
C5_OverStock ==
    \A u \in UserIds, sitio \in SiteArgs, c \in CantArgs :
      LET res == GetCmd(Store, u, sitio, c)
          plan == PlanOfKind(Store, u, Namespace(Store, sitio))
      IN (/\ ReachesBalance(Store, u, sitio, c)
          /\ ParseInt(c).val <= plan.max - plan.usados
          /\ ParseInt(c).val > Depth(Store, sitio)) =>
           /\ res.r.out \in {"InsufficientStock", "NoStock"}
           /\ res.r.items = <<>>
           /\ res.s = Store

(* ================= properties of bursts of updates =================== *)
AllReturned == \A t \in DOMAIN conc.reqs : conc.reqs[t].pc = "done"
SentItems(t) == {conc.reqs[t].sent[i] : i \in 1..Len(conc.reqs[t].sent)}
IsFetchBurst == conc.reqs # <<>> /\ conc.reqs[1].cmd = "get"
IsKeyBurst == conc.reqs # <<>> /\ conc.reqs[1].cmd = "key"

\* The files after the handlers of the updates order[k..] run one after the
\* other on S.
RECURSIVE Serial(_, _, _)
Serial(S, order, k) ==
    IF k > Len(order) THEN S
    ELSE Serial(Handle(S, conc.reqs[order[k]]).s, order, k + 1)

\* C6: n /get netflix 1 sent at the same time by n users with balance for
\* one item, on a pool of exactly n items: at no moment has an item been sent
\* to two callers, and once every handler has returned each caller was sent
\* exactly one item, the n items sent are the n items of the pool, and the
\* pool is empty.
C6_BurstOfFetches ==
    IsFetchBurst =>
      LET n == Len(conc.reqs)
          ns == IF conc.store0.stock # <<>> THEN "normal" ELSE "tarjetas"
          pool0 == PoolsOf(conc.store0, ns)[1].v.items
      IN /\ \A t1, t2 \in 1..n : t1 # t2 => SentItems(t1) \cap SentItems(t2) = {}
         /\ AllReturned =>
              /\ \A t \in 1..n : conc.reqs[t].out = "Delivered" /\ Len(conc.reqs[t].sent) = 1
              /\ UNION {SentItems(t) : t \in 1..n} = {pool0[i] : i \in 1..n}
              /\ Cardinality(UNION {SentItems(t) : t \in 1..n}) = n
              /\ PoolsOf(Store, ns)[1].v.items = <<>>

\* Three fetches of a burst have returned, the last update queued being the
\* first one served.
C6_Witness ==
    /\ IsFetchBurst /\ AllReturned
    /\ Len(conc.reqs) = 3
    /\ conc.order[1] = 3

\* C7: two /key of the same code sent at the same time, by one user or by
\* two: at no moment have both been answered Activated or has more than one
\* plan been activated; once both have returned exactly one was answered
\* Activated and the other one was answered as an unknown code; and the files
\* of every burst are those the handlers leave when they run one after the
\* other in the order the dispatcher took the updates.
C7_BurstOfRedeems ==
    /\ IsKeyBurst =>
         LET won == {t \in 1..2 : conc.reqs[t].out = "Activated"}
             plans == {<<u, ns>> \in {2, 3} \X {"normal", "tarjetas"} :
                         PlanOfKind(Store, u, ns).nombre # "Sin plan"}
         IN /\ Cardinality(won) <= 1
            /\ Cardinality(plans) <= 1
            /\ Cardinality(plans) = Cardinality(won)
            /\ AllReturned =>
                 /\ Cardinality(won) = 1
                 /\ \A t \in {1, 2} \ won : conc.reqs[t].out = "InvalidKey"
                 /\ Keys(Store) = {}
    /\ AllReturned => Store = Serial(conc.store0, conc.order, 1)

\* Two users sent the same code; both handlers have returned and the update
\* queued second was served first.
C7_Witness ==
    /\ IsKeyBurst /\ AllReturned
    /\ conc.reqs[1].uid # conc.reqs[2].uid
    /\ conc.order = <<2, 1>>
    /\ conc.reqs[2].out = "Activated"

(* =================== properties of the abuse policy ================== *)
\* The three parts of C8 for the users of W.  (1) A user whose invalid /key
\* attempts number 3 or more, and whom no admin has unbanned, is in
\* banned_users.  (2) Of the invalid attempts of a user, those before the
\* third are answered InvalidKey and the third is answered Banned.  (3) Once
\* the third invalid attempt has banned a user of W whom no admin had banned
\* or unbanned, a /key of that user is rejected by the ban check whatever the
\* code, a valid key included: no key is consumed, no plan is activated,
\* invalid_key_attempts and the rest of the files stay as they are.
BanHolds(W) ==
    /\ \A u \in UserIds :
         (hist[u].run >= BanThreshold /\ ~hist[u].unbanned) => is_banned(Store, u)
    /\ (reply.op = "key_cmd" /\ reply.out \in {"InvalidKey", "Banned"}) =>
         (reply.out = "Banned" <=> hist[reply.uid].run >= BanThreshold)
    /\ \A u \in W, k \in AllCodes :
         (hist[u].tripped /\ ~hist[u].manual /\ ~hist[u].unbanned) =>
           /\ KeyCmd(Store, u, k).r.out = "BanRejected"
           /\ KeyCmd(Store, u, k).s = Store

\* C8 as stated, for every user id: after 3 invalid /key the user is in
\* banned_users, the third is answered Banned, and a 4th /key of that user is
\* rejected by the ban check before any key lookup.
C8_EveryUserId == BanHolds(UserIds)

\* C8 for every user id other than the super-admin, whom check_ban never
\* rejects.
C8_ExceptSuperAdmin == BanHolds(UserIds \ {ADMIN})

\* A user who had made no invalid attempt and held a plan made three, was
\* banned by the third, and then presented a valid key: it was rejected by
\* the ban check and the key is still there.
C8_Witness ==
    /\ reply.op = "key_cmd" /\ reply.out = "BanRejected"
    /\ reply.uid = 3 /\ UserOf(Store, 3).plan_normal.nombre = "Bronce 1"
    /\ hist[3].run = BanThreshold /\ hist[3].tripped
    /\ ~hist[3].unbanned /\ ~hist[3].manual
    /\ reply.code \in Keys(Store)

\* C9: a /key that the ban check lets through, with a code that is in
\* neither key collection, adds exactly 1 to the caller's
\* invalid_key_attempts (0 for a user without record); below 3 it is answered
\* InvalidKey with 3 - count attempts left and banned_users is unchanged; from
\* 3 on it is answered Banned and the caller is in banned_users, added at
\* the end if absent; in both cases the plans of every user, the attempts of
\* the other users, the key collections and the pools are unchanged.
C9_InvalidAttempt ==
    \A u \in UserIds, k \in AllCodes :
      (PassesBan(Store, u) /\ k \notin Keys(Store)) =>
        LET res == KeyCmd(Store, u, k)
            n == AttemptsOf(Store)[u] + 1
        IN /\ AttemptsOf(res.s) = [AttemptsOf(Store) EXCEPT ![u] = n]
           /\ n < BanThreshold =>
                /\ res.r.out = "InvalidKey" /\ res.r.rem = BanThreshold - n
                /\ res.s.banned_users = banned_users
           /\ n >= BanThreshold =>
                /\ res.r.out = "Banned"
                /\ res.s.banned_users = IF is_banned(Store, u) THEN banned_users
                                        ELSE Append(banned_users, u)
           /\ PlansOf(res.s) = PlansOf(Store)
           /\ res.s.claves = claves /\ res.s.card_keys = card_keys
           /\ res.s.stock = stock /\ res.s.cards = cards /\ res.s.admins = admins

\* A user without record made two invalid attempts: the second was answered
\* InvalidKey with 1 attempt left, and the user is not banned.
C9_Witness ==
    /\ reply.op = "key_cmd" /\ reply.out = "InvalidKey" /\ reply.rem = 1
    /\ reply.uid \in DOMAIN users
    /\ users[reply.uid].invalid_key_attempts = 2
    /\ users[reply.uid].plan_normal = SinPlan
    /\ ~is_banned(Store, reply.uid)

\* C10: the id of a banned user sent to the unban conversation by an admin
\* removes the user from banned_users and leaves invalid_key_attempts at 0;
\* from then on the counter is the number of invalid attempts made since the
\* unban: the first and the second are answered InvalidKey with 2 and 1
\* attempts left and do not ban, the third is answered Banned and the user is
\* in banned_users again.
C10_UnbanResets ==
    /\ \A op \in Operators, t \in UserIds, text \in {"1", "2", "3"} :
         (is_admin(Store, op) /\ ParseInt(text).val = t /\ is_banned(Store, t)) =>
           LET res == UnbanUserEnd(Store, op, TextMsg(text),
                                   "AWAITING_USER_ID_TO_UNBAN", user_data[op])
           IN /\ res.r.out = "Unbanned" /\ res.st = END
              /\ ~is_banned(res.s, t)
              /\ AttemptsOf(res.s)[t] = 0
    /\ \A u \in UserIds :
         hist[u].unbanned =>
           /\ AttemptsOf(Store)[u] = hist[u].run
           /\ is_banned(Store, u) => hist[u].manual \/ hist[u].tripped
           /\ hist[u].tripped <=> hist[u].run >= BanThreshold
    /\ (reply.op = "key_cmd" /\ reply.out \in {"InvalidKey", "Banned"}
        /\ hist[reply.uid].unbanned) =>
         /\ hist[reply.uid].run = 1 => reply.out = "InvalidKey" /\ reply.rem = 2
         /\ hist[reply.uid].run = 2 => reply.out = "InvalidKey" /\ reply.rem = 1
         /\ hist[reply.uid].run >= 3 => reply.out = "Banned" /\ is_banned(Store, reply.uid)

\* A user the policy had banned was unbanned and made three invalid attempts:
\* the third has just banned the user again.
C10_Witness ==
    /\ reply.op = "key_cmd" /\ reply.out = "Banned"
    /\ reply.uid # ADMIN
    /\ hist[reply.uid].unbanned /\ hist[reply.uid].run = BanThreshold
    /\ ~hist[reply.uid].manual
    /\ is_banned(Store, reply.uid)

\* The key collection of a namespace.
KeysOf(S, ns) == IF ns = "normal" THEN S.claves ELSE S.card_keys
\* The kind of the code k: a code in claves is a standard key, else a code in
\* card_keys is a card key.
KindOf(S, k) == IF k \in DOMAIN S.claves THEN "normal"
                ELSE IF k \in DOMAIN S.card_keys THEN "tarjetas" ELSE "none"

\* C11: a /key the ban check lets through, with a key of a kind whose plan
\* the caller holds active with balance left, is answered PlanAlreadyActive
\* and changes nothing: the key stays in its collection, the plans and the
\* invalid_key_attempts of the caller and every file are as before; the key
\* is still redeemable, by another user whose plan of that kind does not
\* block and by the same user once the plan is used up.
C11_PlanAlreadyActive ==
    \A u \in UserIds, k \in AllCodes :
      LET ns == KindOf(Store, k)
          plan == PlanOfKind(Store, u, ns)
          res == KeyCmd(Store, u, k)
      IN (/\ PassesBan(Store, u) /\ ns # "none"
          /\ plan.nombre # "Sin plan" /\ plan.max - plan.usados > 0) =>
           /\ res.r.out = "PlanAlreadyActive" /\ res.r.kind = ns
           /\ res.s = Store
           /\ k \in DOMAIN KeysOf(res.s, ns)
           /\ \A v \in UserIds :
                (PassesBan(res.s, v) /\ ~PlanBlocks(PlanOfKind(res.s, v, ns))) =>
                  KeyCmd(res.s, v, k).r.out = "Activated"
           /\ LET used == [res.s EXCEPT !.users[u][PlanField(ns)].usados = plan.max]
              IN KeyCmd(used, u, k).r.out = "Activated"

\* A card key was presented by a user whose card plan has balance left: the
\* answer was PlanAlreadyActive and the key is still in card_keys.
C11_Witness ==
    /\ reply.op = "key_cmd" /\ reply.out = "PlanAlreadyActive" /\ reply.kind = "tarjetas"
    /\ reply.code \in DOMAIN card_keys
    /\ Balance(UserOf(Store, reply.uid).plan_tarjetas) > 0

\* C12: a /key the ban check lets through, with a key of a kind whose plan
\* the caller does not hold (Sin plan) or holds used up (usados = max), is
\* answered Activated, removes the key from its collection and sets the plan
\* of that kind to exactly the key's name and max with usados 0; the other
\* plan, the invalid_key_attempts, the other users, the other key collection,
\* the pools and the lists are as before.
C12_Activation ==
    \A u \in UserIds, k \in AllCodes :
      LET ns == KindOf(Store, k)
          plan == PlanOfKind(Store, u, ns)
          other == IF ns = "normal" THEN "tarjetas" ELSE "normal"
          res == KeyCmd(Store, u, k)
      IN (/\ PassesBan(Store, u) /\ ns # "none"
          /\ (plan.nombre = "Sin plan" \/ plan.usados = plan.max)) =>
           /\ res.r.out = "Activated" /\ res.r.kind = ns
           /\ k \notin DOMAIN KeysOf(res.s, ns)
           /\ \A c \in DOMAIN KeysOf(Store, ns) :
                c # k => (c \in DOMAIN KeysOf(res.s, ns)
                          /\ KeysOf(res.s, ns)[c] = KeysOf(Store, ns)[c])
           /\ KeysOf(res.s, other) = KeysOf(Store, other)
           /\ PlanOfKind(res.s, u, ns) = [nombre |-> KeysOf(Store, ns)[k][1],
                                          max |-> KeysOf(Store, ns)[k][2],
                                          usados |-> 0]
           /\ PlanOfKind(res.s, u, other) = PlanOfKind(Store, u, other)
           /\ AttemptsOf(res.s) = AttemptsOf(Store)
           /\ \A v \in UserIds \ {u} : UserOf(res.s, v) = UserOf(Store, v)
           /\ res.s.stock = stock /\ res.s.cards = cards
           /\ res.s.banned_users = banned_users /\ res.s.admins = admins

\* User 3 held Bronce 1 with one use, took the one item it allowed from the
\* pool, and then redeemed a Plata 2 key: the used-up plan was overwritten by
\* Plata 2 with 2 uses and none used.
C12_Witness ==
    /\ reply.op = "key_cmd" /\ reply.out = "Activated" /\ reply.uid = 3
    /\ reply.code = KeyA(2) /\ KeyA(2) \notin DOMAIN claves
    /\ KeyA(1) \in DOMAIN claves
    /\ UserOf(Store, 3).plan_normal = Plan("Plata 2", 2, 0)
    /\ UserOf(Store, 2).plan_normal = Plan("Plata 2", 2, 0)
    /\ stock = << [k |-> "netflix", v |-> LegacyPool(<<LegacyItem("b"), LegacyItem("c")>>)] >>

\* The payload flow of a kind of stock: its conversation, its state of
\* collecting items, its pools.
FlowConv(kind) == IF kind = "stock" THEN "add_stock" ELSE "add_cards"
FlowItems(kind) == IF kind = "stock" THEN "AWAITING_STOCK_ACCOUNTS"
                   ELSE "AWAITING_CARDS_ACCOUNTS"
FlowPools(S, kind) == IF kind = "stock" THEN S.stock ELSE S.cards

\* C13: /done in the state of collecting items with a non-empty buffer ends
\* the conversation and leaves, under the site of the session, the pool
\* {message of the session, items = the buffer}: an entry under that key is
\* replaced in place, none of its items remain, every other entry and every
\* other file is as before.  The buffer is empty when the usage message has
\* been taken and grows at the end, by one text item per non-blank line of a
\* text and by one item for a media message with a caption.
C13_CommitReplaces ==
    \A u \in UserIds, kind \in {"stock", "cards"} :
      LET d == user_data[u]
          site == d[SiteKey(kind)]
          buf == d[BufferKey(kind)]
          before == FlowPools(Store, kind)
      IN conv[u][FlowConv(kind)] = FlowItems(kind) =>
           /\ buf # <<>> =>
                LET res == Finish(Store, u, kind, d)
                    after == FlowPools(res.s, kind)
                IN /\ res.r.out = "Committed" /\ res.st = END
                   /\ Cardinality({i \in 1..Len(after) : after[i].k = site}) = 1
                   /\ DictGet(after, site) =
                        [shape |-> "dict", message |-> d[MessageKey(kind)], items |-> buf]
                   /\ Len(after) = Len(before) + (IF site \in DictKeys(before) THEN 0 ELSE 1)
                   /\ \A i \in 1..Len(before) :
                        /\ after[i].k = before[i].k
                        /\ before[i].k # site => after[i] = before[i]
                   /\ [res.s EXCEPT !.stock = <<>>, !.cards = <<>>]
                        = [Store EXCEPT !.stock = <<>>, !.cards = <<>>]
                   /\ FlowPools(res.s, IF kind = "stock" THEN "cards" ELSE "stock")
                        = FlowPools(Store, IF kind = "stock" THEN "cards" ELSE "stock")
           /\ LET two == Receive(Store, u, kind, TextMsg("acc1\nacc2"), FlowItems(kind), d)
                  one == Receive(Store, u, kind, TextMsg("acc3\n "), FlowItems(kind), d)
                  pic == Receive(Store, u, kind, MediaMsg("photo", "accP"), FlowItems(kind), d)
              IN /\ two.d[BufferKey(kind)] = buf \o <<TextItem("acc1"), TextItem("acc2")>>
                 /\ one.d[BufferKey(kind)] = buf \o <<TextItem("acc3")>>
                 /\ pic.d[BufferKey(kind)] =
                      buf \o <<MediaItem("accP", "file_of_photo", "photo")>>
                 /\ two.s = Store /\ one.s = Store /\ pic.s = Store
           /\ GetMessage(Store, u, kind, TextMsg("N/A"), d).d[BufferKey(kind)] = <<>>

\* The text turns "acc1\nacc2" and "acc3", then /done, for the site netflix
\* that held the legacy list [a, b, c]: the pool is exactly the 3 new items.
C13_Witness ==
    /\ reply.op = "finish_add_stock" /\ reply.out = "Committed" /\ reply.cant = 3
    /\ stock = << [k |-> "netflix",
                   v |-> DictPool("N/A", <<TextItem("acc1"), TextItem("acc2"),
                                           TextItem("acc3")>>)] >>
    /\ conv[reply.uid]["add_stock"] = END

\* C14: every turn of an admin-only flow from a user who is neither in admins
\* nor ADMIN is rejected: a start button opens no conversation, and a start
\* button, a message to an open conversation, /done and a generation button
\* change no file.
C14_NonAdminRejected ==
    \A u \in UserIds :
      ~is_admin(Store, u) =>
        /\ \A c \in {Convs[i] : i \in 1..Len(Convs)} :
             LET res == EntryStart(Store, u, c, user_data[u])
             IN res.st = END /\ res.s = Store
        /\ \A c \in {Convs[i] : i \in 1..Len(Convs)}, msg \in AllMsgs :
             conv[u][c] # END =>
               OnMessage(Store, u, c, conv[u][c], msg, user_data[u], {}).s = Store
        /\ \A kind \in {"stock", "cards"} :
             conv[u][FlowConv(kind)] = FlowItems(kind) =>
               Finish(Store, u, kind, user_data[u]).s = Store
        /\ \A sf \in Suffixes :
             /\ GenCmd(Store, u, sf).s = Store
             /\ SuperProKeyCmd(Store, u, sf).s = Store
             /\ GenCardsKeyCmd(Store, u, sf).s = Store

\* C15: after /cancel the sender has no payload flow of stock or of cards
\* open; /cancel changes no file; and the items of a cancelled session reach
\* no pool, because the buffer is emptied before items are collected again.
C15_CancelClosesFlow ==
    /\ reply.op = "cancel_conv" =>
         /\ conv[reply.uid]["add_stock"] = END
         /\ conv[reply.uid]["add_cards"] = END
    /\ \A u \in UserIds :
         /\ CancelConv(Store, u, user_data[u]).s = Store
         /\ CancelConv(Store, u, user_data[u]).st = END
         /\ \A kind \in {"stock", "cards"} :
              GetMessage(Store, u, kind, TextMsg("N/A"), user_data[u]).d[BufferKey(kind)] = <<>>

\* C16: no user has the stock flow and the card flow open at once.
C16_OneIngestionFlow ==
    \A u \in UserIds : conv[u]["add_stock"] = END \/ conv[u]["add_cards"] = END

\* C17: admins changes only in an add_admin_end or rem_admin_end turn of
\* ADMIN; the start button and the id turn of the promote and of the demote
\* conversation from any other user, members of admins included, are
\* answered Unauthorized, open nothing and change no file.
C17_OnlySuperAdminChangesAdmins ==
    /\ [](\A u \in UserIds \ {ADMIN}, c \in {"add_admin", "rem_admin"}, msg \in IdMsgs :
            LET start == EntryStart(Store, u, c, user_data[u])
                add == AddAdminEnd(Store, u, msg, "AWAITING_ADMIN_ID", user_data[u])
                rem == RemAdminEnd(Store, u, msg, "AWAITING_REMOVE_ADMIN_ID", user_data[u])
            IN /\ start.r.out = "Unauthorized" /\ start.st = END /\ start.s = Store
               /\ add.r.out = "Unauthorized" /\ add.s = Store
               /\ rem.r.out = "Unauthorized" /\ rem.s = Store)
    /\ [][admins' # admins =>
            /\ reply'.uid = ADMIN
            /\ \/ reply'.op = "add_admin_end" /\ reply'.out = "Promoted"
               \/ reply'.op = "rem_admin_end" /\ reply'.out = "Demoted"]_vars

\* A member of admins pressed the promote button and was refused.
C17_Witness ==
    /\ reply.op = "add_admin_start" /\ reply.out = "Unauthorized"
    /\ reply.uid # ADMIN /\ InList(reply.uid, admins)
    /\ conv[reply.uid]["add_admin"] = END

\* C18: ADMIN passes the admin check, the super-admin check and the ban
\* check whatever admins and banned_users hold, every start button prompts
\* ADMIN, and a demote turn that names ADMIN, from anybody, leaves admins as
\* it is (answered CannotDemoteSuperAdmin when ADMIN is in admins).
C18_SuperAdminKeepsPrivilege ==
    /\ is_admin(Store, ADMIN) /\ IsSuperAdmin(ADMIN) /\ PassesBan(Store, ADMIN)
    /\ \A S \in {Store, [Store EXCEPT !.banned_users = Append(@, ADMIN)],
                 [Store EXCEPT !.admins = <<>>]} :
         /\ is_admin(S, ADMIN) /\ PassesBan(S, ADMIN)
         /\ \A c \in {Convs[i] : i \in 1..Len(Convs)} :
              EntryStart(S, ADMIN, c, user_data[ADMIN]).r.out = "Prompt"
    /\ \A u \in UserIds :
         LET rem == RemAdminEnd(Store, u, TextMsg("1"), "AWAITING_REMOVE_ADMIN_ID",
                                user_data[u])
         IN /\ ParseInt("1").val = ADMIN
            /\ rem.s.admins = admins
            /\ (u = ADMIN /\ InList(ADMIN, admins)) => rem.r.out = "CannotDemoteSuperAdmin"

\* ADMIN was promoted into admins and then named in a demote turn: refused,
\* ADMIN is still in admins.
C18_Witness ==
    /\ reply.op = "rem_admin_end" /\ reply.out = "CannotDemoteSuperAdmin"
    /\ reply.uid = ADMIN /\ reply.target = ADMIN
    /\ InList(ADMIN, admins)

\* C19: the id of a user with a record, sent by an admin to the revoke
\* conversation, leaves both plans of that user at Sin plan with max 0 and
\* usados 0 whatever they were, and the invalid_key_attempts of that user,
\* the other users and every other file as they were; an id without record
\* is answered UserNotFound and changes nothing.
C19_RevokePlans ==
    \A op \in UserIds, text \in {"1", "2", "3", "4"} :
      LET t == ParseInt(text).val
          res == RevokePremiumEnd(Store, op, TextMsg(text), "AWAITING_USER_ID_TO_REVOKE",
                                  user_data[op])
      IN is_admin(Store, op) =>
           /\ res.st = END
           /\ t \in DOMAIN users =>
                /\ res.r.out = "Revoked" /\ res.r.target = t
                /\ res.s.users[t].plan_normal = [nombre |-> "Sin plan", max |-> 0, usados |-> 0]
                /\ res.s.users[t].plan_tarjetas = [nombre |-> "Sin plan", max |-> 0, usados |-> 0]
                /\ res.s.users[t].invalid_key_attempts = users[t].invalid_key_attempts
                /\ DOMAIN res.s.users = DOMAIN users
                /\ \A v \in (DOMAIN users) \ {t} : res.s.users[v] = users[v]
                /\ [res.s EXCEPT !.users = EmptyMap] = [Store EXCEPT !.users = EmptyMap]
           /\ t \notin DOMAIN users =>
                /\ res.r.out = "UserNotFound"
                /\ res.s = Store

\* User 2, who held Oro 3 with 2 uses left, a card plan and 2 invalid
\* attempts, was revoked: both plans are Sin plan, the attempts are still 2.
C19_Witness ==
    /\ reply.op = "revoke_premium_end" /\ reply.out = "Revoked" /\ reply.target = 2
    /\ UserOf(Store, 2) = User(SinPlan, SinPlan, 2)
    /\ is_banned(Store, 3)

\* The files when an operation stops between the two saves the claim names:
\* the key collection and users (activation), users and banned_users (the
\* invalid /key that bans), the pools and users (/get), banned_users and
\* users (unban).
KeyCut(S, u, k) ==
    LET out == KeyCmd(S, u, k).r.out
        saves == KeySaves(S, u, k)
    IN IF out = "Activated" \/ (out = "Banned" /\ Len(saves) = 3)
       THEN {saves[2]} ELSE {}
GetCut(S, u, sitio, cant) ==
    IF GetSaves(S, u, sitio, cant) = <<>> THEN {} ELSE {GetSaves(S, u, sitio, cant)[1]}
UnbanCut(S, u, msg, d) ==
    IF Len(UnbanSaves(S, u, msg, d)) < 2 THEN {} ELSE {UnbanSaves(S, u, msg, d)[1]}

\* C20: when the store fails between the saves of an operation, the files
\* are those before the operation or those after it: no pool has lost items
\* that no plan was charged for, no key is gone without its plan, no user is
\* at the threshold without the ban, no ban is lifted without the reset.
C20_AllOrNothing ==
    /\ \A u \in UserIds, sitio \in SiteArgs, cant \in CantArgs :
         GetCut(Store, u, sitio, cant) \subseteq {Store, GetCmd(Store, u, sitio, cant).s}
    /\ \A u \in UserIds, k \in AllCodes \cup {BogusCode} :
         KeyCut(Store, u, k) \subseteq {Store, KeyCmd(Store, u, k).s}
    /\ \A u \in Operators, msg \in IdMsgs :
         UnbanCut(Store, u, msg, user_data[u])
           \subseteq {Store, UnbanUserEnd(Store, u, msg, "AWAITING_USER_ID_TO_UNBAN",
                                           user_data[u]).s}

(* ------------------------------ claim C21 ---------------------------- *)
\* C21: when loading a collection fails, the operation that needed it
\* (Redeem, Fetch, key generation) fails and changes no collection: with any
\* file unreadable, /key, /get and /gen leave every collection as it was.
C21_LoadFailureChangesNothing ==
    \A bad \in BadFiles :
        /\ \A u \in UserIds, clave \in CodeInputs :
              KeyCmdUnreadable(Store, u, clave, bad).s = Store
        /\ \A u \in UserIds, sitio \in SiteArgs, cant \in CantArgs :
              GetCmdUnreadable(Store, u, sitio, cant, bad).s = Store
        /\ \A u \in Operators :
              GenCmdUnreadable(Store, u, [i \in 1..Len(Planes) |-> "A"], bad).s = Store

(* ------------------------------ claim C22 ---------------------------- *)
\* C22: a supported payload received in AwaitingBroadcastPayload is sent
\* once to every known user; a failed send is counted and does not stop the
\* others; sent + failed is the number of known users and the conversation
\* is Idle afterwards.  An unsupported payload sends nothing and leaves the
\* conversation in AwaitingBroadcastPayload.  No collection changes.
C22_BroadcastReachesEveryUser ==
    \A u \in Operators, msg \in BroadcastMsgs, fails \in SUBSET (DOMAIN users) :
        LET res == ReceiveBroadcastContent(Store, u, msg, "BROADCAST_CONTENT",
                                           user_data[u], fails)
            tried == res.r.items
        IN /\ res.s = Store
           /\ IF msg.ftype \in {"text", "photo", "video", "animation"}
              THEN /\ Len(tried) = Cardinality(DOMAIN users)
                   /\ {tried[i] : i \in 1..Len(tried)} = DOMAIN users
                   /\ res.r.rem = Cardinality(fails)
                   /\ res.r.cant + res.r.rem = Cardinality(DOMAIN users)
                   /\ res.st = END
              ELSE /\ tried = <<>>
                   /\ res.r.cant = 0 /\ res.r.rem = 0
                   /\ res.st = "BROADCAST_CONTENT"

\* A broadcast went out with a failed send and a later successful one.
C22_Witness ==
    /\ reply.op = "receive_broadcast_content"
    /\ reply.out = "BroadcastDone"
    /\ reply.cant > 0 /\ reply.rem > 0
    /\ reply.cant + reply.rem = Cardinality(DOMAIN users)
    /\ conv[reply.uid]["broadcast"] = END

(* ------------------------------ claim C23 ---------------------------- *)
\* C23: in a Fetch of several items a delivery failure for one item never
\* aborts the batch: the send of every item removed from the pool is
\* attempted, whichever sends raise.
C23_BatchNeverAborted ==
    \A u \in UserIds, sitio \in SiteArgs, cant \in CantArgs,
       raises \in [1..2 -> Raises] :
        LET res == GetCmd(Store, u, sitio, cant)
            und == GetCmdUndelivered(Store, u, sitio, cant, raises)
        IN (res.r.out = "Delivered" /\ Len(res.r.items) > 1)
           => und.r.cant = Len(res.r.items)

(* ------------------------------ claim C24 ---------------------------- *)
\* C24: after any sequence of key generations and Redeems no code is in
\* both the standard and the card key collection, and a Redeem removes the
\* code only from the collection it was found in.
C24_KeyCollectionsDisjoint ==
    /\ (DOMAIN claves) \cap (DOMAIN card_keys) = {}
    /\ \A u \in UserIds, clave \in CodeInputs :
          LET res == KeyCmd(Store, u, clave)
          IN res.r.out = "Activated" =>
               /\ clave \in DOMAIN claves =>
                     /\ res.s.card_keys = card_keys
                     /\ res.s.claves = [k \in (DOMAIN claves) \ {clave} |-> claves[k]]
               /\ clave \in DOMAIN card_keys =>
                     /\ res.s.claves = claves
                     /\ res.s.card_keys =
                            [k \in (DOMAIN card_keys) \ {clave} |-> card_keys[k]]

\* A card key was redeemed after a standard key was generated: the card
\* key is gone, the generated standard key is still unused.
C24_Witness ==
    /\ reply.op = "key_cmd" /\ reply.out = "Activated" /\ reply.kind = "tarjetas"
    /\ reply.code \notin DOMAIN card_keys
    /\ <<"superpro", "A">> \in DOMAIN claves

(* ------------------------------ claim C25 ---------------------------- *)
\* C25: Fetch resolves the pool key against the standard pools first, and a
\* standard entry that exists with zero items, in either shape, still counts
\* as existing: the Fetch is answered from the standard namespace and no
\* card pool or card plan is read or changed.
C25_StandardPoolFirst ==
    \A u \in UserIds, sitio \in SiteArgs, c \in CantArgs :
      LET res == GetCmd(Store, u, sitio, c)
      IN (Namespace(Store, sitio) = "normal"
          /\ res.r.out \notin {"BanRejected", "BadQuantity", "NoActivePlan"}) =>
           /\ res.r.kind = "normal"
           /\ res.s.cards = cards
           /\ u \in DOMAIN users =>
                 res.s.users[u].plan_tarjetas = users[u].plan_tarjetas

(* ------------------------------ claim C26 ---------------------------- *)
\* C26: Fetch requires a quantity >= 1: a /get whose quantity is not a
\* number, is 0 or is negative is answered with an error and changes no
\* state: no item leaves a pool, none is delivered, usados is unchanged.
C26_QuantityAtLeastOne ==
    \A u \in UserIds, sitio \in SiteArgs, c \in CantArgs :
      LET res == GetCmd(Store, u, sitio, c)
      IN (~ParseInt(c).ok \/ ParseInt(c).val < 1) =>
           /\ res.r.out # "Delivered"
           /\ res.r.items = <<>>
           /\ res.s = Store

(* ------------------------------ claim C27 ---------------------------- *)
\* C27: in every reachable state every user's max and usados of both plans
\* and invalid_key_attempts are at least 0.
C27_CountersNonNegative ==
    \A u \in DOMAIN users :
        /\ users[u].plan_normal.max >= 0
        /\ users[u].plan_normal.usados >= 0
        /\ users[u].plan_tarjetas.max >= 0
        /\ users[u].plan_tarjetas.usados >= 0
        /\ users[u].invalid_key_attempts >= 0

(* ------------------------------ claim C28 ---------------------------- *)
\* Spellings of the pool keys that differ only in letter case.
Spellings == {"netflix", "Netflix", "NETFLIX", "visa", "Visa", "VISA"}
\* The lower-case spelling of a spelling.
Canonical(K) == IF K \in {"netflix", "Netflix", "NETFLIX"} THEN "netflix" ELSE "visa"
\* The files after an ingestion session of user u whose site name was typed
\* as text and whose buffer holds one account.
Ingested(S, u, text) ==
    LET d1 == GetSite(S, u, "stock", TextMsg(text), EmptyUserData).d
        d2 == GetMessage(S, u, "stock", TextMsg("N/A"), d1).d
        d3 == Receive(S, u, "stock", TextMsg("acc1\nacc2"),
                      "AWAITING_STOCK_ACCOUNTS", d2).d
    IN Finish(S, u, "stock", d3).s

\* C28: pool keys are resolved case-insensitively: two /get whose site
\* arguments differ only in letter case, started from the same files, end
\* with the same reply, the same pool entry and the same files (each
\* spelling ends as the lower-case spelling does); this holds
\* as well for a pool an ingestion session created from a site name typed
\* in mixed case.
C28_CaseInsensitiveKeys ==
    LET S2 == Ingested(Store, ADMIN, " Netflix ")
    IN \A u \in UserIds, c \in CantArgs, K \in Spellings :
          /\ GetCmd(Store, u, K, c) = GetCmd(Store, u, Canonical(K), c)
          /\ LET res == GetCmd(S2, u, K, c)
             IN /\ res = GetCmd(S2, u, Canonical(K), c)
                /\ (Canonical(K) = "netflix" /\ res.r.out = "Delivered"
                    /\ res.r.items # <<>>)
                      => /\ res.r.site = "netflix"
                         /\ res.r.items[1].label = "acc1"

\* A /get was served from the pool stored under the mixed-case key Visa.
C28_Witness ==
    /\ reply.op = "get_cmd" /\ reply.out = "Delivered"
    /\ reply.site = "Visa"
    /\ Lower(reply.site) # reply.site

(* ------------------------------ claim C29 ---------------------------- *)
\* C29: an unban of user t changes only t's membership of banned_users and
\* t's invalid_key_attempts: both plans of t, every other user's record, the
\* key collections, the pools, admins and the other bans are the same after
\* unban_user_end as before, whatever id the admin sends.
C29_UnbanFrame ==
    \A op \in Operators, msg \in IdMsgs :
        LET res == UnbanUserEnd(Store, op, msg, "AWAITING_USER_ID_TO_UNBAN",
                                user_data[op])
            t == res.r.target
        IN /\ res.s.claves = claves /\ res.s.card_keys = card_keys
           /\ res.s.stock = stock /\ res.s.cards = cards
           /\ res.s.admins = admins
           /\ res.d = user_data[op]
           /\ DOMAIN res.s.users = DOMAIN users
           /\ \A v \in DOMAIN users :
                 /\ res.s.users[v].plan_normal = users[v].plan_normal
                 /\ res.s.users[v].plan_tarjetas = users[v].plan_tarjetas
                 /\ v # t => res.s.users[v] = users[v]
           /\ \A v \in UserIds \ {t} : is_banned(res.s, v) <=> is_banned(Store, v)
           /\ res.r.out # "Unbanned" => res.s = Store

\* A banned user with a used plan was unbanned: the plan and its usage are
\* as they were, the attempts are 0.
C29_Witness ==
    /\ reply.op = "unban_user_end" /\ reply.out = "Unbanned"
    /\ reply.target \in DOMAIN users
    /\ users[reply.target].plan_normal.usados > 0
    /\ users[reply.target].invalid_key_attempts = 0
    /\ ~is_banned(Store, reply.target)

(* ------------------------------ claim C30 ---------------------------- *)
\* The turns of an ingestion session: those the flows are explored with, a
\* text with a blank line between two accounts and an animation whose
\* caption has two lines.
Turns == ItemMsgs \cup {TextMsg("acc1\n \nacc2"), MediaMsg("animation", "acc1\nacc2")}
\* The labels a text turn carries: its lines that are not blank, trimmed.
TurnLabels(text) ==
    LET lines == SplitLines(text)
        IsLabel(l) == Strip(l) # ""
        kept == SelectSeq(lines, IsLabel)
    IN [i \in 1..Len(kept) |-> Strip(kept[i])]

\* C30: in AWAITING_STOCK_ACCOUNTS / AWAITING_CARDS_ACCOUNTS every turn
\* keeps the buffer and appends to it in order: a text turn one item per
\* non-blank line, each without attachment; a photo, video or animation with
\* a caption exactly one item with the file reference and kind and the whole
\* caption as label; a turn without label (no caption, only blank lines)
\* nothing.  The flow stays in its state and no file changes.
C30_TurnAppends ==
    \A u \in Operators, kind \in {"stock", "cards"}, msg \in Turns :
        LET st == Op(kind, "AWAITING_STOCK_ACCOUNTS", "AWAITING_CARDS_ACCOUNTS")
            buf == user_data[u][BufferKey(kind)]
            res == Receive(Store, u, kind, msg, st, user_data[u])
            new == res.d[BufferKey(kind)]
            added == SubSeq(new, Len(buf) + 1, Len(new))
        IN /\ res.st = st
           /\ res.s = Store
           /\ Len(new) >= Len(buf) /\ SubSeq(new, 1, Len(buf)) = buf
           /\ res.d = [user_data[u] EXCEPT ![BufferKey(kind)] = new]
           /\ IF msg.ftype = "text"
              THEN /\ Len(added) = Len(TurnLabels(msg.text))
                   /\ \A i \in 1..Len(added) :
                         /\ added[i].label = TurnLabels(msg.text)[i]
                         /\ added[i].file_id = "none"
              ELSE IF msg.caption # ""
              THEN /\ Len(added) = 1
                   /\ added[1].label = msg.caption
                   /\ added[1].file_id = "file_of_" \o msg.ftype
                   /\ added[1].file_type = msg.ftype
              ELSE added = <<>>

\* A session buffer holds, in the order of the turns, the two accounts of a
\* text turn and then the account of a photo turn.
C30_Witness ==
    /\ reply.op = "receive_accounts" /\ reply.out = "Added"
    /\ conv[reply.uid]["add_stock"] = "AWAITING_STOCK_ACCOUNTS"
    /\ Len(user_data[reply.uid].temp_accounts) = 3
    /\ user_data[reply.uid].temp_accounts[1].label = "acc1"
    /\ user_data[reply.uid].temp_accounts[2].label = "acc2"
    /\ user_data[reply.uid].temp_accounts[3].file_type = "photo"

(* ------------------------------ claim C31 ---------------------------- *)
\* The callback of an administrative flow in its awaiting-id state.
IdFlow(S, uid, st, msg, d) ==
    CASE st = "AWAITING_USER_ID_TO_REVOKE" -> RevokePremiumEnd(S, uid, msg, st, d)
      [] st = "AWAITING_USER_ID_TO_BAN" -> BanUserEnd(S, uid, msg, st, d)
      [] st = "AWAITING_USER_ID_TO_UNBAN" -> UnbanUserEnd(S, uid, msg, st, d)
      [] st = "AWAITING_ADMIN_ID" -> AddAdminEnd(S, uid, msg, st, d)
      [] OTHER -> RemAdminEnd(S, uid, msg, st, d)

\* C31: an administrative flow (revoke, ban, unban, promote, demote) that
\* receives a non-numeric user id from an authorized admin reports the
\* validation error, changes no collection, stays in its awaiting-id state
\* and does not end in an unhandled error.
C31_MalformedIdHandled ==
    \A u \in Operators, msg \in IdMsgs,
       st \in {"AWAITING_USER_ID_TO_REVOKE", "AWAITING_USER_ID_TO_BAN",
               "AWAITING_USER_ID_TO_UNBAN", "AWAITING_ADMIN_ID",
               "AWAITING_REMOVE_ADMIN_ID"} :
        LET res == IdFlow(Store, u, st, msg, user_data[u])
        IN (~ParseInt(msg.text).ok /\ res.r.out # "Unauthorized") =>
             /\ res.r.out = "BadId"
             /\ res.s = Store
             /\ res.st = st

(* ------------------------------ claim C32 ---------------------------- *)
\* The states of the flow of a kind before the items are collected.
FlowSite(kind) == IF kind = "stock" THEN "AWAITING_STOCK_SITE" ELSE "AWAITING_CARDS_SITE"
FlowMessage(kind) == IF kind = "stock" THEN "AWAITING_STOCK_MESSAGE"
                     ELSE "AWAITING_CARDS_MESSAGE"
\* The steps of the flow: Idle, pool key, usage message, items, Idle; /cancel
\* leaves from every state.
FlowSteps(kind) ==
    {<<END, FlowSite(kind)>>, <<FlowSite(kind), FlowMessage(kind)>>,
     <<FlowMessage(kind), FlowItems(kind)>>, <<FlowItems(kind), END>>,
     <<FlowSite(kind), END>>, <<FlowMessage(kind), END>>}

\* C32: ingestion goes Idle -> pool key -> usage message -> items -> Idle
\* for both kinds.  The pools of a kind change only by /done taken in the
\* state of collecting items, which writes the site and the usage message
\* the same session took in its pool-key turn and then its usage-message
\* turn; start, pool-key, usage-message, item and cancel turns change no
\* pool.
C32_IngestionOrder ==
    [][\A kind \in {"stock", "cards"} :
         /\ \A u \in UserIds :
              LET a == conv[u][FlowConv(kind)]
                  b == conv'[u][FlowConv(kind)]
              IN /\ a # b => <<a, b>> \in FlowSteps(kind)
                 /\ (a = FlowSite(kind) /\ b = FlowMessage(kind)) =>
                       /\ reply'.op = Op(kind, "get_stock_site", "get_cards_site")
                       /\ \E m \in SiteMsgs :
                             user_data'[u][SiteKey(kind)] = Lower(Strip(m.text))
                 /\ (a = FlowMessage(kind) /\ b = FlowItems(kind)) =>
                       /\ reply'.op = Op(kind, "get_stock_message", "get_cards_message")
                       /\ \E m \in UsageMsgs :
                             user_data'[u][MessageKey(kind)] = Strip(m.text)
                       /\ user_data'[u][BufferKey(kind)] = <<>>
                 /\ a \in {FlowMessage(kind), FlowItems(kind)} =>
                       user_data'[u][SiteKey(kind)] = user_data[u][SiteKey(kind)]
                 /\ a = FlowItems(kind) =>
                       user_data'[u][MessageKey(kind)] = user_data[u][MessageKey(kind)]
         /\ FlowPools(Store', kind) # FlowPools(Store, kind) =>
              \E u \in UserIds :
                 /\ conv[u][FlowConv(kind)] = FlowItems(kind)
                 /\ conv'[u][FlowConv(kind)] = END
                 /\ reply'.op = Op(kind, "finish_add_stock", "finish_add_cards")
                 /\ reply'.out = "Committed" /\ reply'.uid = u
                 /\ FlowPools(Store', kind) =
                      DictSet(FlowPools(Store, kind), user_data[u][SiteKey(kind)],
                              DictPool(user_data[u][MessageKey(kind)],
                                       user_data[u][BufferKey(kind)]))
    ]_vars

\* A card session went through its three turns and /done: the card pool
\* netflix holds the usage message and the item of the session.
C32_Witness ==
    /\ reply.op = "finish_add_cards" /\ reply.out = "Committed"
    /\ conv[reply.uid]["add_cards"] = END
    /\ reply.site = "netflix"
    /\ DictGet(cards, "netflix").message = "N/A"
    /\ DictGet(cards, "netflix").items = user_data[reply.uid].temp_cards
    /\ stock \in {LegacyStore.stock, RichStore.stock}

(* ------------------------------ claim C33 ---------------------------- *)
\* The items held by the pools of both namespaces.
PoolItems ==
    UNION {{stock[i].v.items[k] : k \in 1..Len(stock[i].v.items)} : i \in 1..Len(stock)}
    \cup
    UNION {{cards[i].v.items[k] : k \in 1..Len(cards[i].v.items)} : i \in 1..Len(cards)}

\* C33: in /get the pool without the items and the raised usados are both
\* saved before the first item is sent: while a handler sends, and from its
\* first send on, none of its items is in a pool any more and the plan of
\* the pool's namespace is charged; a send changes no file.
C33_CommitBeforeSend ==
    /\ \A t \in DOMAIN conc.reqs :
         LET q == conc.reqs[t]
         IN (q.cmd = "get" /\ q.pc \in {"sending", "done"} /\ q.items # <<>>) =>
              /\ \A k \in 1..Len(q.items) : q.items[k] \notin PoolItems
              /\ users[q.uid].plan_normal.usados + users[q.uid].plan_tarjetas.usados
                   >= Len(q.items)
              /\ Len(q.sent) <= Len(q.items)
    /\ \A t \in DOMAIN conc.reqs :
         conc.reqs[t].pc \in {"queued", "running"} => conc.reqs[t].sent = <<>>

\* A handler of a burst of /get has sent its item while another update of
\* the burst is still queued.
C33_Witness ==
    /\ IsFetchBurst
    /\ \E t \in DOMAIN conc.reqs :
         /\ conc.reqs[t].pc = "sending"
         /\ conc.reqs[t].sent # <<>>
         /\ conc.reqs[t].sent = conc.reqs[t].items
    /\ \E t \in DOMAIN conc.reqs : conc.reqs[t].pc = "queued"

(* ------------------------------ claim C34 ---------------------------- *)
\* The record of user u in the files S; a user without record has no plan.
RecordOf(S, u) == IF u \in DOMAIN S.users THEN S.users[u] ELSE NewUser
\* The plan of the other namespace, and every other user's record, are in
\* T as they are in S.
OtherPlanKept(S, T, u, ns) ==
    /\ (IF ns = "normal" THEN RecordOf(T, u).plan_tarjetas = RecordOf(S, u).plan_tarjetas
        ELSE RecordOf(T, u).plan_normal = RecordOf(S, u).plan_normal)
    /\ DOMAIN T.users \subseteq (DOMAIN S.users) \cup {u}
    /\ \A v \in (DOMAIN S.users) \ {u} : T.users[v] = S.users[v]

\* C34: the two plans of a user are independent and bound to their
\* namespace.  A /key that activates a standard key changes the caller's
\* standard plan and claves only, a card key the card plan and card_keys
\* only.  A /get served from a pool of a namespace changes that pool and the
\* caller's plan of that namespace only; when that plan is Sin plan the /get
\* is answered NoPlan and changes nothing.  No /key and no /get changes the
\* record of another user.
C34_PlansIndependent ==
    \A u \in UserIds :
      /\ \A clave \in CodeInputs :
           LET res == KeyCmd(Store, u, clave)
           IN IF res.r.out = "Activated"
              THEN /\ OtherPlanKept(Store, res.s, u, res.r.kind)
                   /\ res.r.kind = "normal" => res.s.card_keys = card_keys
                   /\ res.r.kind = "tarjetas" => res.s.claves = claves
                   /\ res.s.stock = stock /\ res.s.cards = cards
              ELSE /\ OtherPlanKept(Store, res.s, u, "normal")
                   /\ OtherPlanKept(Store, res.s, u, "tarjetas")
      /\ \A sitio \in SiteArgs, c \in CantArgs :
           LET res == GetCmd(Store, u, sitio, c)
               ns == res.r.kind
               plan == IF ns = "normal" THEN RecordOf(Store, u).plan_normal
                       ELSE RecordOf(Store, u).plan_tarjetas
           IN /\ ns = "none" => res.s = Store
              /\ ns # "none" =>
                   /\ OtherPlanKept(Store, res.s, u, ns)
                   /\ ns = "normal" => res.s.cards = cards
                   /\ ns = "tarjetas" => res.s.stock = stock
                   /\ res.s.claves = claves /\ res.s.card_keys = card_keys
                   /\ plan.nombre = "Sin plan" =>
                         res.r.out = "NoPlan" /\ res.s = Store
                   /\ res.r.out = "Delivered" => plan.nombre # "Sin plan"

\* A card was delivered from the card pool Visa to a user whose standard
\* plan is active and partly used: the standard plan is as it was.
C34_Witness ==
    /\ reply.op = "get_cmd" /\ reply.out = "Delivered" /\ reply.kind = "tarjetas"
    /\ users[reply.uid].plan_normal = Plan("Oro 3", 3, 1)
    /\ users[reply.uid].plan_tarjetas.usados = 1

(* ------------------------------ claim C35 ---------------------------- *)
\* C35: between two updates every user whose invalid_key_attempts is 3 or
\* more is in banned_users, whatever sequence of /key, admin ban, unban and
\* revoke led there.
C35_ThresholdImpliesBan ==
    \A u \in DOMAIN users :
        users[u].invalid_key_attempts >= BanThreshold => is_banned(Store, u)

\* The super-admin, whom the ban check lets through, made a fourth invalid
\* attempt: the count is 4 and the id is in banned_users.
C35_Witness ==
    /\ reply.op = "key_cmd" /\ reply.out = "Banned" /\ reply.uid = ADMIN
    /\ users[ADMIN].invalid_key_attempts = BanThreshold + 1
    /\ is_banned(Store, ADMIN)

(* ------------------------------ claim C36 ---------------------------- *)
\* C36: invalid_key_attempts is the number of invalid /key of the user
\* since the record was created or since the last unban that reset it: a
\* /key that activates a plan or is answered PlanAlreadyActive, a /get and a
\* revoke leave the count of every user as it is, so the third invalid
\* attempt bans even when valid redemptions came in between.
C36_CountsEveryInvalidAttempt ==
    /\ \A u \in UserIds : AttemptsOf(Store)[u] = hist[u].run
    /\ \A u \in UserIds :
         /\ \A clave \in CodeInputs :
              LET res == KeyCmd(Store, u, clave)
              IN res.r.out \in {"Activated", "PlanAlreadyActive", "BanRejected"} =>
                   AttemptsOf(res.s) = AttemptsOf(Store)
         /\ \A sitio \in SiteArgs, c \in CantArgs :
              AttemptsOf(GetCmd(Store, u, sitio, c).s) = AttemptsOf(Store)
    /\ \A op \in Operators, msg \in IdMsgs :
         AttemptsOf(RevokePremiumEnd(Store, op, msg, "AWAITING_USER_ID_TO_REVOKE",
                                     user_data[op]).s) = AttemptsOf(Store)
    /\ (reply.op = "key_cmd" /\ reply.out \in {"InvalidKey", "Banned"}) =>
         (reply.out = "Banned" <=> hist[reply.uid].run >= BanThreshold)

\* A user without record made three invalid attempts and redeemed a key in
\* the same run: the third invalid attempt was answered Banned.
C36_Witness ==
    /\ reply.op = "key_cmd" /\ reply.out = "Banned"
    /\ hist[reply.uid].run = BanThreshold
    /\ users[reply.uid].plan_normal.nombre # "Sin plan"
    /\ spent # {}
    /\ reply.uid \notin DOMAIN LegacyStore.users

(* ------------------------------ claim C37 ---------------------------- *)
\* C37: for each pool, since the files were loaded or since the last
\* ingestion commit to its key, the items the /get served from it have
\* delivered, in the order of the deliveries, followed by the items still in
\* the pool, are the committed item sequence: no item is delivered twice,
\* dropped or delivered out of order.
C37_ItemsConserved ==
    \A ns \in {"normal", "tarjetas"} :
        /\ DOMAIN ledger[ns] = DictKeys(PoolsOf(Store, ns))
        /\ \A k \in DOMAIN ledger[ns] :
              ledger[ns][k].out \o DictGet(PoolsOf(Store, ns), k).items
                 = ledger[ns][k].base

\* An ingestion session committed acc1, acc2 to netflix and a /get has
\* since delivered acc1: acc2 is what the pool holds.
C37_Witness ==
    /\ reply.op = "get_cmd" /\ reply.out = "Delivered"
    /\ "netflix" \in DOMAIN ledger["normal"]
    /\ ledger["normal"]["netflix"].base = <<TextItem("acc1"), TextItem("acc2")>>
    /\ ledger["normal"]["netflix"].out = <<TextItem("acc1")>>
    /\ DictGet(stock, "netflix").items = <<TextItem("acc2")>>
    /\ DictGet(stock, "netflix").message = "N/A"


(* ------------------------------ claim C38 ---------------------------- *)
\* C38: the items delivered to a user from the pools of a namespace never
\* exceed the uses the user's redeemed keys of that kind have granted, for
\* any integer quantity.  Each /get that delivers must then deliver at most
\* what remains on the plan it is charged to: max - usados of that plan
\* before the call.
C38_DeliveryWithinBalance ==
    \A u \in UserIds, sitio \in SiteArgs, c \in CantArgs :
      LET res == GetCmd(Store, u, sitio, c)
          plan == IF res.r.kind = "normal" THEN UserOf(Store, u).plan_normal
                  ELSE UserOf(Store, u).plan_tarjetas
      IN res.r.out = "Delivered" =>
           Len(res.r.items) <= plan.max - plan.usados


(* ------------------------------ claim C39 ---------------------------- *)
\* C39: /done received while the flow awaits items and the session buffer
\* is empty commits nothing: the conversation ends, every file is as it
\* was, so the pool stored under the session's key, if any, is not replaced
\* by an empty pool.
C39_EmptyDoneCommitsNothing ==
    \A u \in UserIds, kind \in {"stock", "cards"} :
      LET c == IF kind = "stock" THEN "add_stock" ELSE "add_cards"
          res == Finish(Store, u, kind, user_data[u])
      IN (/\ conv[u][c] = Op(kind, "AWAITING_STOCK_ACCOUNTS", "AWAITING_CARDS_ACCOUNTS")
          /\ user_data[u][BufferKey(kind)] = <<>>) =>
           /\ res.r.out = "NothingAdded"
           /\ res.st = END
           /\ res.s = Store

\* An operator opened a stock session for netflix, sent no item and sent
\* /done: the session is closed and the legacy pool of netflix still holds
\* its three items.
C39_Witness ==
    /\ reply.op = "finish_add_stock" /\ reply.out = "NothingAdded"
    /\ conv[reply.uid]["add_stock"] = END
    /\ user_data[reply.uid]["stock_site"] = "netflix"
    /\ user_data[reply.uid]["temp_accounts"] = <<>>
    /\ "netflix" \in DictKeys(stock)
    /\ DictGet(stock, "netflix") = DictGet(LegacyStore.stock, "netflix")


(* ------------------------------ claim C40 ---------------------------- *)
\* C40: while a user other than the super-admin is in banned_users, no
\* update of that user changes a file: whatever handler answers it, users,
\* claves, card_keys, stock, cards, banned_users and admins are after the
\* handler what they were before it, also when the user is listed in admins.
C40_BannedChangesNothing ==
    [][(/\ reply'.uid \in UserIds \ {ADMIN}
        /\ is_banned(Store, reply'.uid)) =>
          UNCHANGED <<users, claves, card_keys, stock, cards, banned_users, admins>>]_vars

=============================================================================
